---- MODULE Spec2Model ----
(***************************************************************************)
(* Verification model of the saritaqr mobile client:                       *)
(*   - the location-code codec (src/src/lib/locationCodes.ts),             *)
(*   - the WorkScreen pending-move queue, its persistence and its sync     *)
(*     pass (src/src/screens/WorkScreen.tsx, src/src/database/db.ts).      *)
(* Strings are TLA+ strings; characters are strings of length one.         *)
(***************************************************************************)
EXTENDS Integers, Sequences, FiniteSets, TLC

VARIABLES
    \* ---- WorkScreen: React state and refs
    pendingMoves,   \* useState<PendingMove[]>: the pending-move queue in memory
    lastSyncTime,   \* useState<string>: 0 is '', p > 0 the time read by sync pass p
    isSyncing,      \* useState(false)
    selectedOrder,  \* useState<ExportOrder | null>: an order id, or NoOrder
    movedLots,      \* useState<Set<string>>
    scanned,        \* useState(false)
    isProcessing,   \* useRef(false)
    scan,           \* the onBarcodeScanned call suspended at await getUser()
    loadPc,         \* loadOfflineData: "moves" | "sync" | "done"
    pass,           \* the handleSync calls, by pass number
    nPasses,        \* number of handleSync calls started so far
    \* ---- AsyncStorage
    storedMoves,    \* key work_pending_moves: NoStr when absent, else <<queue>>
    storedSync,     \* key work_last_sync: 0 when absent
    writes,         \* setItem(work_pending_moves, ...) calls issued and not completed
    \* ---- bookkeeping of the model
    nextId,         \* the next fresh PendingMove id
    nScans,         \* barcode callbacks delivered so far
    nRejects,       \* move calls the server rejected so far
    reportedSaved,  \* moves for which the 'saved' feedback was shown
    \* ---- codec harness
    codecPc,        \* codec harness: "slot" | "code" | "parsed"
    codecSlot,      \* the Slot handed to formatCode (Null when the input is a string)
    codecStr,       \* the value handed to parseCode: Str(s), or NoStr for null
    codecOut,       \* what parseCode returned (Null models null)
    \* ---- the other components, each idle unless its own specification runs
    assign,         \* AssignScreen: items, occupied and its /scan/sync request
    offline,        \* useOfflineLookup and useDataSync: snapshots, index, download
    auth,           \* authService.login: key user_data, the call and its outcome
    download,       \* WorkScreen.handleDownload: the cached orders and the call
    sync            \* syncService.syncData: the call in flight and its outcome

codecVars == <<codecPc, codecSlot, codecStr, codecOut>>

auxVars == <<assign, offline, auth, download, sync>>

\* a component that is not mounted
Off == [pc |-> "off"]

AuxIdle == assign = Off /\ offline = Off /\ auth = Off /\ download = Off /\ sync = Off

Null == [null |-> TRUE]

\* JavaScript's NaN, the result of parseInt on a string without digits
NaN == -1

(***************************************************************************)
(* Bounds of the model                                                     *)
(***************************************************************************)
\* rows, levels and pallet indices of the Slots handed to formatCode: 1..MaxNum
MaxNum == 11

(***************************************************************************)
(* Characters and strings                                                  *)
(***************************************************************************)
Char(s, i) == SubSeq(s, i, i)

UpperLetters == "ABCDEFGHIJKLMNOPQRSTUVWXYZ"
LowerLetters == "abcdefghijklmnopqrstuvwxyz"
Digits == "0123456789"

IsDigit(c) == \E i \in 1..10 : Char(Digits, i) = c

\* String.prototype.toUpperCase on one ASCII character
UpperChar(c) ==
    IF \E i \in 1..26 : Char(LowerLetters, i) = c
    THEN Char(UpperLetters, CHOOSE i \in 1..26 : Char(LowerLetters, i) = c)
    ELSE c

LowerChar(c) ==
    IF \E i \in 1..26 : Char(UpperLetters, i) = c
    THEN Char(LowerLetters, CHOOSE i \in 1..26 : Char(UpperLetters, i) = c)
    ELSE c

RECURSIVE toUpperCase(_)
toUpperCase(s) ==
    IF s = "" THEN ""
    ELSE UpperChar(Char(s, 1)) \o toUpperCase(SubSeq(s, 2, Len(s)))

RECURSIVE toLowerCase(_)
toLowerCase(s) ==
    IF s = "" THEN ""
    ELSE LowerChar(Char(s, 1)) \o toLowerCase(SubSeq(s, 2, Len(s)))

IsSpace(c) == c \in {" ", "\t", "\n"}

\* String.prototype.trim
RECURSIVE trim(_)
trim(s) ==
    IF s = "" THEN ""
    ELSE IF IsSpace(Char(s, 1)) THEN trim(SubSeq(s, 2, Len(s)))
    ELSE IF IsSpace(Char(s, Len(s))) THEN trim(SubSeq(s, 1, Len(s) - 1))
    ELSE s

\* fetchOrders' norm, line 194: trimmed and upper-cased
norm(s) == toUpperCase(trim(s))

DigitVal(c) == (CHOOSE i \in 1..10 : Char(Digits, i) = c) - 1

\* Number(m[k]) on a string of decimal digits (leading zeros are dropped)
RECURSIVE Number(_)
Number(s) ==
    IF s = "" THEN 0
    ELSE 10 * Number(SubSeq(s, 1, Len(s) - 1)) + DigitVal(Char(s, Len(s)))

(***************************************************************************)
(* locationCodes.ts: formatCode                                            *)
(***************************************************************************)
HasField(s, f) == f \in DOMAIN s

formatCode(s) ==
    IF s.zone = "S"
    THEN "S-K" \o ToString(s.warehouse) \o ".PL" \o ToString(s.pos)
    ELSE LET d == IF HasField(s, "row") THEN s.row ELSE 0
             t == IF HasField(s, "level") THEN s.level ELSE 0
         IN s.zone \o "-K" \o ToString(s.warehouse) \o "D" \o ToString(d)
                   \o "T" \o ToString(t) \o ".PL" \o ToString(s.pos)

(***************************************************************************)
(* locationCodes.ts: the two regular expressions, matched the way a        *)
(* regex engine does: left to right, \d+ greedy, literals with the i flag. *)
(* A match is the tuple of its capture groups, no match is <<>>.           *)
(***************************************************************************)
\* index after the longest run of digits starting at i (i itself when none)
RECURSIVE DigitsEnd(_, _)
DigitsEnd(s, i) ==
    IF i <= Len(s) /\ IsDigit(Char(s, i)) THEN DigitsEnd(s, i + 1) ELSE i

\* the literal lit (given in upper case) at position i, case-insensitively
LitAt(s, i, lit) ==
    /\ i + Len(lit) - 1 <= Len(s)
    /\ toUpperCase(SubSeq(s, i, i + Len(lit) - 1)) = lit

\* ^(A|B)-K(\d+)D(\d+)T(\d+)\.PL(\d+)$ with flag i
matchRack(s) ==
    LET w0 == 4
        w1 == DigitsEnd(s, w0)
        d0 == w1 + 1
        d1 == DigitsEnd(s, d0)
        t0 == d1 + 1
        t1 == DigitsEnd(s, t0)
        p0 == t1 + 3
        p1 == DigitsEnd(s, p0)
    IN IF /\ (LitAt(s, 1, "A") \/ LitAt(s, 1, "B"))
          /\ LitAt(s, 2, "-K")
          /\ w1 > w0
          /\ LitAt(s, w1, "D")
          /\ d1 > d0
          /\ LitAt(s, d1, "T")
          /\ t1 > t0
          /\ LitAt(s, t1, ".PL")
          /\ p1 > p0
          /\ p1 = Len(s) + 1
       THEN << Char(s, 1), SubSeq(s, w0, w1 - 1), SubSeq(s, d0, d1 - 1),
               SubSeq(s, t0, t1 - 1), SubSeq(s, p0, p1 - 1) >>
       ELSE << >>

\* ^S-K(\d+)\.PL(\d+)$ with flag i
matchHall(s) ==
    LET w0 == 4
        w1 == DigitsEnd(s, w0)
        p0 == w1 + 3
        p1 == DigitsEnd(s, p0)
    IN IF /\ LitAt(s, 1, "S-K")
          /\ w1 > w0
          /\ LitAt(s, w1, ".PL")
          /\ p1 > p0
          /\ p1 = Len(s) + 1
       THEN << SubSeq(s, w0, w1 - 1), SubSeq(s, p0, p1 - 1) >>
       ELSE << >>

\* a bug that returns the warehouse number as it was read
clampWarehouseNone(w) == w

\* w === 1 || w === 2 || w === 3 ? w : 1
clampWarehouse(w) == IF w \in {1, 2, 3} THEN w ELSE 1

(***************************************************************************)
(* locationCodes.ts: parseCode.  Its argument is a JavaScript value that   *)
(* is a string or null/undefined: <<s>> is the string s, << >> is null.    *)
(***************************************************************************)
Str(s) == << s >>
NoStr == << >>

\* (code || '')
orEmpty(code) == IF code = NoStr THEN "" ELSE code[1]

\* a bug that forgets the .trim() of the input
parseCodeNoTrim(code) ==
    LET s == orEmpty(code)
        m == matchRack(s)
        h == matchHall(s)
    IN IF m # << >>
       THEN [warehouse |-> clampWarehouse(Number(m[2])), zone |-> toUpperCase(m[1]),
             row |-> Number(m[3]), level |-> Number(m[4]), pos |-> Number(m[5]),
             code |-> s, capacity |-> 1]
       ELSE IF h # << >>
       THEN [warehouse |-> clampWarehouse(Number(h[1])), zone |-> "S",
             pos |-> Number(h[2]), code |-> s, capacity |-> 1]
       ELSE Null

\* a bug that reads the row from group 4 and the level from group 3
parseCodeSwapped(code) ==
    LET s == trim(orEmpty(code))
        m == matchRack(s)
        h == matchHall(s)
    IN IF m # << >>
       THEN [warehouse |-> clampWarehouse(Number(m[2])), zone |-> toUpperCase(m[1]),
             row |-> Number(m[4]), level |-> Number(m[3]), pos |-> Number(m[5]),
             code |-> s, capacity |-> 1]
       ELSE IF h # << >>
       THEN [warehouse |-> clampWarehouse(Number(h[1])), zone |-> "S",
             pos |-> Number(h[2]), code |-> s, capacity |-> 1]
       ELSE Null

parseCode(code) ==
    LET s == trim(orEmpty(code))
        m == matchRack(s)
        h == matchHall(s)
    IN IF m # << >>
       THEN [warehouse |-> clampWarehouse(Number(m[2])), zone |-> toUpperCase(m[1]),
             row |-> Number(m[3]), level |-> Number(m[4]), pos |-> Number(m[5]),
             code |-> s, capacity |-> 1]
       ELSE IF h # << >>
       THEN [warehouse |-> clampWarehouse(Number(h[1])), zone |-> "S",
             pos |-> Number(h[2]), code |-> s, capacity |-> 1]
       ELSE Null

(***************************************************************************)
(* WorkScreen.tsx: data                                                    *)
(***************************************************************************)
\* bounds of the model
MaxPasses == 1
MaxScans == 1

NoOrder == ""

\* the export orders shown in the list (ExportOrder: id, locations, lotCodes);
\* lot L1 is on both orders
Orders ==
    [ O1 |-> [id |-> "O1",
              lotCodes |-> << "L1", "L2", "L3" >>,
              locations |-> << "A-K1D1T1.PL1", "A-K1D1T1.PL2", "A-K1D2T1.PL1" >>],
      O2 |-> [id |-> "O2",
              lotCodes |-> << "L1", "L4", "L5" >>,
              locations |-> << "A-K1D1T1.PL1", "B-K2D1T1.PL1", "B-K2D1T1.PL2" >>] ]

OrderIds == DOMAIN Orders

\* authService.getUser() of the signed-in user
StoredUser == [username |-> "tho"]

\* a PendingMove (its timestamp, which nothing reads, is left out)
NewMove(id, order, idx, target, by) ==
    [id |-> id, exportOrderId |-> order.id, lotCode |-> order.lotCodes[idx],
     originalPosition |-> order.locations[idx], targetWarehouse |-> target,
     movedBy |-> by]

\* queues an earlier run of the program can have left in storage
InitialQueues ==
    { << >>,
      << NewMove(1, Orders.O1, 1, "AUTO", "tho") >>,
      << NewMove(1, Orders.O1, 1, "AUTO", "tho"), NewMove(2, Orders.O2, 1, "AUTO", "tho") >>,
      << NewMove(1, Orders.O1, 1, "AUTO", "tho"), NewMove(2, Orders.O1, 2, "AUTO", "tho"),
         NewMove(3, Orders.O1, 3, "AUTO", "tho"), NewMove(4, Orders.O2, 1, "AUTO", "tho"),
         NewMove(5, Orders.O2, 2, "AUTO", "tho"), NewMove(6, Orders.O2, 3, "AUTO", "tho") >> }

FirstFreshId == 7

\* the longest queue the bounds allow
MaxQueueLen == 6 + MaxScans

\* what the camera can deliver
ScanData == {"L1", "http://sarita.click/qr/L%34?t=1", " XX "}

Range(q) == {q[i] : i \in 1..Len(q)}

(***************************************************************************)
(* WorkScreen.tsx: onBarcodeScanned's extraction of the lot code           *)
(***************************************************************************)
\* String.prototype.indexOf(sub): 1-based, 0 when absent
StrIndexOf(s, sub) ==
    LET hits == {i \in 1..(Len(s) - Len(sub) + 1) : SubSeq(s, i, i + Len(sub) - 1) = sub}
    IN IF hits = {} THEN 0 ELSE CHOOSE i \in hits : \A j \in hits : i <= j

includes(s, sub) == StrIndexOf(s, sub) # 0

\* String.prototype.split('/')
RECURSIVE split(_, _)
split(s, sep) ==
    LET k == StrIndexOf(s, sep)
    IN IF k = 0 THEN << s >>
       ELSE << SubSeq(s, 1, k - 1) >> \o split(SubSeq(s, k + Len(sep), Len(s)), sep)

\* new URL(code).pathname of scheme://host/path?query#hash; NoStr when the
\* constructor throws (no scheme)
pathname(code) ==
    LET k == StrIndexOf(code, "://")
        rest == SubSeq(code, k + 3, Len(code))
        slash == StrIndexOf(rest, "/")
        path == SubSeq(rest, slash, Len(rest))
        q == StrIndexOf(path, "?")
        noq == IF q = 0 THEN path ELSE SubSeq(path, 1, q - 1)
        h == StrIndexOf(noq, "#")
    IN IF k <= 1 THEN NoStr
       ELSE IF slash = 0 THEN Str("/")
       ELSE Str(IF h = 0 THEN noq ELSE SubSeq(noq, 1, h - 1))

\* the printable ASCII characters in code order: 32-33, 35-91, 93-95, 97-126
Ascii32 == " !"
Ascii35 == "#$%&'()*+,-./0123456789:;<=>?@ABCDEFGHIJKLMNOPQRSTUVWXYZ["
Ascii93 == "]^_"
Ascii97 == "abcdefghijklmnopqrstuvwxyz{|}~"

\* String.fromCharCode(v) for a printable ASCII code, NoStr for any other
fromCharCode(v) ==
    IF v \in 32..33 THEN Str(Char(Ascii32, v - 31))
    ELSE IF v = 34 THEN Str("\"")
    ELSE IF v \in 35..91 THEN Str(Char(Ascii35, v - 34))
    ELSE IF v = 92 THEN Str("\\")
    ELSE IF v \in 93..95 THEN Str(Char(Ascii93, v - 92))
    ELSE IF v \in 97..126 THEN Str(Char(Ascii97, v - 96))
    ELSE NoStr

HexDigits == "0123456789ABCDEF"

\* the value of a hexadecimal digit, NaN for any other character
HexVal(c) ==
    LET hits == {i \in 1..Len(HexDigits) : Char(HexDigits, i) = UpperChar(c)}
    IN IF hits = {} THEN NaN ELSE (CHOOSE i \in hits : TRUE) - 1

\* decodeURIComponent: every %XY becomes the character of code XY; NoStr when
\* it throws URIError (a % without two hexadecimal digits).  Escapes outside
\* printable ASCII are not in the scanned data and are treated as malformed.
RECURSIVE decodeURIComponent(_)
decodeURIComponent(s) ==
    IF s = "" THEN Str("")
    ELSE IF Char(s, 1) # "%"
    THEN LET r == decodeURIComponent(SubSeq(s, 2, Len(s)))
         IN IF r = NoStr THEN NoStr ELSE Str(SubSeq(s, 1, 1) \o r[1])
    ELSE IF Len(s) < 3 \/ HexVal(Char(s, 2)) = NaN \/ HexVal(Char(s, 3)) = NaN
    THEN NoStr
    ELSE LET v == 16 * HexVal(Char(s, 2)) + HexVal(Char(s, 3))
             r == decodeURIComponent(SubSeq(s, 4, Len(s)))
         IN IF fromCharCode(v) = NoStr \/ r = NoStr THEN NoStr
            ELSE Str(fromCharCode(v)[1] \o r[1])

\* lines 507-517: the lot code read from the scanned data; an exception of
\* new URL or decodeURIComponent leaves the trimmed data
scannedCode(data) ==
    LET code == trim(data)
        pn == pathname(code)
        pathParts == split(pn[1], "/")
        hits == {i \in 1..Len(pathParts) : pathParts[i] = "qr"}
        qrIndex == CHOOSE i \in hits : \A j \in hits : i <= j
        decoded == decodeURIComponent(pathParts[qrIndex + 1])
    IN IF includes(code, "/qr/") /\ pn # NoStr /\ hits # {}
          /\ qrIndex + 1 <= Len(pathParts) /\ pathParts[qrIndex + 1] # ""
          /\ decoded # NoStr
       THEN decoded[1]
       ELSE code

ScannedCodeTable == [data \in ScanData |-> scannedCode(data)]

\* Array.prototype.indexOf on lotCodes: 1-based, 0 when absent
lotIndexOf(lotCodes, code) ==
    LET hits == {i \in 1..Len(lotCodes) : lotCodes[i] = code}
    IN IF hits = {} THEN 0 ELSE CHOOSE i \in hits : \A j \in hits : i <= j

(***************************************************************************)
(* WorkScreen.tsx: state after mount                                       *)
(***************************************************************************)
NoScan == [pc |-> "idle"]

NoPass == [pc |-> "unused"]

workVars ==
    << pendingMoves, lastSyncTime, isSyncing, selectedOrder, movedLots, scanned,
       isProcessing, scan, loadPc, pass, nPasses, storedMoves, storedSync, writes,
       nextId, nScans, nRejects, reportedSaved >>

\* the component just mounted: state at its initial values, the mount-time
\* effects have called loadOfflineData() and savePendingMoves()
Mounted ==
    /\ pendingMoves = << >>
    /\ lastSyncTime = 0
    /\ isSyncing = FALSE
    /\ selectedOrder = NoOrder
    /\ movedLots = {}
    /\ scanned = FALSE
    /\ isProcessing = FALSE
    /\ scan = NoScan
    /\ loadPc = "moves"
    /\ writes = << << >> >>

\* what the model keeps beside the program's state, and the idle codec harness
Fresh ==
    /\ AuxIdle
    /\ pass = [p \in 1..MaxPasses |-> NoPass]
    /\ nPasses = 0
    /\ storedSync = 0
    /\ nextId = FirstFreshId
    /\ nScans = 0
    /\ nRejects = 0
    /\ reportedSaved = {}
    /\ codecPc = "off"
    /\ codecSlot = Null
    /\ codecStr = NoStr
    /\ codecOut = Null

\* start-up: the screen mounts over whatever an earlier run left in storage
InitMount ==
    /\ Mounted
    /\ storedMoves \in {Str(q) : q \in InitialQueues} \cup {NoStr}
    /\ Fresh

\* the screen after loadOfflineData finished and the queue it loaded was
\* written back: memory and storage hold the same queue
Init ==
    /\ \E q \in InitialQueues :
         /\ pendingMoves = q
         /\ storedMoves = Str(q)
    /\ lastSyncTime = 0
    /\ isSyncing = FALSE
    /\ selectedOrder = NoOrder
    /\ movedLots = {}
    /\ scanned = FALSE
    /\ isProcessing = FALSE
    /\ scan = NoScan
    /\ loadPc = "done"
    /\ writes = << >>
    /\ Fresh

(***************************************************************************)
(* WorkScreen.tsx: persistence of the queue                                *)
(***************************************************************************)
\* setPendingMoves(q) followed by the effect of lines 110-112: the re-render
\* runs savePendingMoves(), which issues setItem with the new queue
setPendingMoves(q) ==
    /\ pendingMoves' = q
    /\ writes' = Append(writes, q)

\* AsyncStorage completes the oldest setItem(work_pending_moves)
WriteDone ==
    /\ writes # << >>
    /\ storedMoves' = Str(Head(writes))
    /\ writes' = Tail(writes)
    /\ UNCHANGED << pendingMoves, lastSyncTime, isSyncing, selectedOrder, movedLots,
                    scanned, isProcessing, scan, loadPc, pass, nPasses, storedSync,
                    nextId, nScans, nRejects, reportedSaved, codecVars, auxVars >>

\* loadOfflineData, lines 140-144: getItem(work_pending_moves) resolved
LoadMoves ==
    /\ loadPc = "moves"
    /\ loadPc' = "sync"
    /\ IF storedMoves # NoStr
       THEN setPendingMoves(storedMoves[1])
       ELSE UNCHANGED << pendingMoves, writes >>
    /\ UNCHANGED << lastSyncTime, isSyncing, selectedOrder, movedLots, scanned,
                    isProcessing, scan, pass, nPasses, storedMoves, storedSync,
                    nextId, nScans, nRejects, reportedSaved, codecVars, auxVars >>

\* loadOfflineData, lines 147-148: getItem(work_last_sync) resolved
LoadSync ==
    /\ loadPc = "sync"
    /\ loadPc' = "done"
    /\ lastSyncTime' = IF storedSync # 0 THEN storedSync ELSE lastSyncTime
    /\ UNCHANGED << pendingMoves, isSyncing, selectedOrder, movedLots, scanned,
                    isProcessing, scan, pass, nPasses, storedMoves, storedSync, writes,
                    nextId, nScans, nRejects, reportedSaved, codecVars, auxVars >>

(***************************************************************************)
(* WorkScreen.tsx: order selection and scanning                            *)
(***************************************************************************)
\* handleSelectOrder (camera permission granted), from the order list
handleSelectOrder(o) ==
    /\ selectedOrder = NoOrder
    /\ nScans < MaxScans
    /\ selectedOrder' = o
    /\ movedLots' = {m.lotCode : m \in {x \in Range(pendingMoves) : x.exportOrderId = o}}
    /\ scanned' = FALSE
    /\ UNCHANGED << pendingMoves, lastSyncTime, isSyncing, isProcessing, scan, loadPc,
                    pass, nPasses, storedMoves, storedSync, writes, nextId, nScans,
                    nRejects, reportedSaved, codecVars, auxVars >>

\* the back button of the order view, line 578
Back ==
    /\ selectedOrder # NoOrder
    /\ selectedOrder' = NoOrder
    /\ UNCHANGED << pendingMoves, lastSyncTime, isSyncing, movedLots, scanned,
                    isProcessing, scan, loadPc, pass, nPasses, storedMoves, storedSync,
                    writes, nextId, nScans, nRejects, reportedSaved, codecVars, auxVars >>

\* onBarcodeScanned up to await authService.getUser(); the rejected scans
\* (lines 520-530) only show feedback
onBarcodeScanned(data) ==
    /\ ~scanned /\ selectedOrder # NoOrder /\ ~isProcessing
    /\ nScans < MaxScans
    /\ nScans' = nScans + 1
    /\ isProcessing' = TRUE
    /\ scanned' = TRUE
    /\ LET order == Orders[selectedOrder]
           code == ScannedCodeTable[data]
           lotIndex == lotIndexOf(order.lotCodes, code)
       IN scan' = IF lotIndex = 0 \/ code \in movedLots
                  THEN NoScan
                  ELSE [pc |-> "getUser", order |-> selectedOrder, lotIndex |-> lotIndex,
                        movedLots |-> movedLots]
    /\ UNCHANGED << pendingMoves, lastSyncTime, isSyncing, selectedOrder, movedLots,
                    loadPc, pass, nPasses, storedMoves, storedSync, writes, nextId,
                    nRejects, reportedSaved, codecVars, auxVars >>

\* onBarcodeScanned after getUser() resolved, lines 535-552
ScanSave ==
    /\ scan.pc = "getUser"
    /\ LET order == Orders[scan.order]
           newMove == NewMove(nextId, order, scan.lotIndex, "AUTO", StoredUser.username)
       IN /\ setPendingMoves(Append(pendingMoves, newMove))
          /\ movedLots' = scan.movedLots \cup {newMove.lotCode}
          /\ reportedSaved' = reportedSaved \cup {newMove}
          /\ pass' = [p \in 1..MaxPasses |->
                        IF pass[p].pc \in {"unused", "done"} THEN pass[p]
                        ELSE [pass[p] EXCEPT !.appended = @ \cup {newMove}]]
    /\ nextId' = nextId + 1
    /\ scan' = NoScan
    /\ UNCHANGED << lastSyncTime, isSyncing, selectedOrder, scanned, isProcessing, loadPc,
                    nPasses, storedMoves, storedSync, nScans, nRejects, codecVars, auxVars >>

\* getUser() rejected: the catch of lines 554-557
ScanFail ==
    /\ scan.pc = "getUser"
    /\ scan' = NoScan
    /\ UNCHANGED << pendingMoves, lastSyncTime, isSyncing, selectedOrder, movedLots,
                    scanned, isProcessing, loadPc, pass, nPasses, storedMoves, storedSync,
                    writes, nextId, nScans, nRejects, reportedSaved, codecVars, auxVars >>

\* the timer of showFeedback, lines 494-498
FeedbackTimeout ==
    /\ isProcessing /\ scan.pc = "idle"
    /\ scanned' = FALSE
    /\ isProcessing' = FALSE
    /\ UNCHANGED << pendingMoves, lastSyncTime, isSyncing, selectedOrder, movedLots, scan,
                    loadPc, pass, nPasses, storedMoves, storedSync, writes, nextId,
                    nScans, nRejects, reportedSaved, codecVars, auxVars >>

(***************************************************************************)
(* WorkScreen.tsx: handleSync, the allocation of Hall slots                *)
(***************************************************************************)
BATCH_SIZE == 5
HallScanMax == 100

\* move calls the server rejects (404 or another error) in one run
MaxRejects == 1

Min(a, b) == IF a <= b THEN a ELSE b

\* parseInt on a trimmed string: its leading digits, NaN when there are none
parseInt(s) ==
    LET e == DigitsEnd(s, 1)
    IN IF e = 1 THEN NaN ELSE Number(SubSeq(s, 1, e - 1))

\* line 334: formatCode({ warehouse: whId, zone: 'S', pos: i, capacity: 1 })
HallCode(whId, i) ==
    formatCode([warehouse |-> whId, zone |-> "S", pos |-> i, capacity |-> 1])

HallCodeTable == [w \in 1..3 |-> [i \in 1..HallScanMax |-> HallCode(w, i)]]

HallCodeOf(whId, i) ==
    IF whId \in 1..3 THEN HallCodeTable[whId][i] ELSE HallCode(whId, i)

\* the Hall codes the server can report on
HallUniverse == {HallCodeTable[w][i] : w \in 1..3, i \in 1..HallScanMax}

\* The answer of GET /locations/positions is kept as `free`, the Hall codes of
\* warehouses 1..3 that are NOT in it: occupiedSet is HallUniverse \ free.
occupiedSetHas(free, code) == code \in HallUniverse /\ code \notin free

\* the answers of GET /locations/positions: everything occupied but the first
\* k codes of this list
HallFreeOrder ==
    << HallCode(1, 3), HallCode(2, 1), HallCode(2, 2), HallCode(3, 100),
       HallCode(1, 4), HallCode(2, 50) >>

FreeChoices == {{HallFreeOrder[j] : j \in 1..k} : k \in {0, 1, 3, Len(HallFreeOrder)}}

\* the answers of GET /lots/deleted (the lotCode of each item)
DeletedChoices == {{}, {"L1"}, {" l1"}, {"L1", "L2", "L3", "L4", "L5"}}

\* a bug that forgets the exclusion set
getNextEmptyHallSpotsNoExclude(whId, count, exclude, free) ==
    LET ok == {i \in 1..HallScanMax : ~occupiedSetHas(free, HallCodeOf(whId, i))}
        n == IF ok = {} THEN 0
             ELSE IF count < 1 THEN 1
             ELSE Min(count, Cardinality(ok))
        nth(k) == CHOOSE i \in ok : Cardinality({j \in ok : j < i}) = k - 1
    IN [k \in 1..n |-> HallCodeOf(whId, nth(k))]

\* lines 330-341: the loop visits i = 1..100 in ascending order, pushes every
\* code that is neither occupied nor excluded and stops once spots.length >=
\* count (tested after the push, so a count below 1 still yields one code)
getNextEmptyHallSpots(whId, count, exclude, free) ==
    LET ok == {i \in 1..HallScanMax :
                 /\ ~occupiedSetHas(free, HallCodeOf(whId, i))
                 /\ HallCodeOf(whId, i) \notin exclude}
        n == IF ok = {} THEN 0
             ELSE IF count < 1 THEN 1
             ELSE Min(count, Cardinality(ok))
        nth(k) == CHOOSE i \in ok : Cardinality({j \in ok : j < i}) = k - 1
    IN [k \in 1..n |-> HallCodeOf(whId, nth(k))]

\* a bug that tries warehouse 2 before warehouse 1
resolveDestFrom2(move, usedHallSpots, free) ==
    LET whId == parseInt(move.targetWarehouse)
        s1 == getNextEmptyHallSpots(1, 1, usedHallSpots, free)
        s2 == getNextEmptyHallSpots(2, 1, usedHallSpots, free)
        s3 == getNextEmptyHallSpots(3, 1, usedHallSpots, free)
        sw == getNextEmptyHallSpots(whId, 1, usedHallSpots, free)
    IN IF whId = NaN \/ move.targetWarehouse = "AUTO"
       THEN IF Len(s2) > 0 THEN [toPos |-> s2[1], error |-> ""]
            ELSE IF Len(s1) > 0 THEN [toPos |-> s1[1], error |-> ""]
            ELSE IF Len(s3) > 0 THEN [toPos |-> s3[1], error |-> ""]
            ELSE [toPos |-> "", error |-> "no free slot in the 3 warehouses"]
       ELSE IF Len(sw) = 0
            THEN [toPos |-> "", error |-> "warehouse has no free Hall slot"]
            ELSE [toPos |-> sw[1], error |-> ""]

\* lines 360-399: the destination of one move, "" when no slot was found, and
\* the error message of that case
resolveDest(move, usedHallSpots, free) ==
    LET whId == parseInt(move.targetWarehouse)
        s1 == getNextEmptyHallSpots(1, 1, usedHallSpots, free)
        s2 == getNextEmptyHallSpots(2, 1, usedHallSpots, free)
        s3 == getNextEmptyHallSpots(3, 1, usedHallSpots, free)
        sw == getNextEmptyHallSpots(whId, 1, usedHallSpots, free)
    IN IF whId = NaN \/ move.targetWarehouse = "AUTO"
       THEN IF Len(s1) > 0 THEN [toPos |-> s1[1], error |-> ""]
            ELSE IF Len(s2) > 0 THEN [toPos |-> s2[1], error |-> ""]
            ELSE IF Len(s3) > 0 THEN [toPos |-> s3[1], error |-> ""]
            ELSE [toPos |-> "", error |-> "no free slot in the 3 warehouses"]
       ELSE IF Len(sw) = 0
            THEN [toPos |-> "", error |-> "warehouse has no free Hall slot"]
            ELSE [toPos |-> sw[1], error |-> ""]

\* a bug that marks the slot as used only after the move call returned
usedAfterAwait(usedHallSpots, toPos) == usedHallSpots

\* line 401: usedHallSpots.add(toPos), before the move call is awaited
usedAdd(usedHallSpots, toPos) == usedHallSpots \cup {toPos}

\* batch.map(async (move) => ...) of lines 359-413 up to each call's first
\* await, for the moves k..last of movesToProcess in order: st is
\* [used, dest, resp]
RECURSIVE dispatch(_, _, _, _, _)
dispatch(moves, k, last, free, st) ==
    IF k > last THEN st
    ELSE LET d == resolveDest(moves[k], st.used, free)
         IN IF d.toPos = ""
            THEN dispatch(moves, k + 1, last, free,
                          [st EXCEPT !.dest[k] = "", !.resp[k] = d.error])
            ELSE dispatch(moves, k + 1, last, free,
                          [used |-> usedAdd(st.used, d.toPos),
                           dest |-> [st.dest EXCEPT ![k] = d.toPos],
                           resp |-> [st.resp EXCEPT ![k] = "pending"]])

\* the moves of the batch that starts after index i (0-based, as in the code)
BatchIdx(ps) == (ps.i + 1)..Min(ps.i + BATCH_SIZE, Len(ps.toProcess))

\* a bug that sends every remaining move at once
dispatchRest(ps) ==
    LET st == dispatch(ps.toProcess, ps.i + 1, Len(ps.toProcess),
                       ps.free, [used |-> ps.used, dest |-> ps.dest, resp |-> ps.resp])
    IN [ps EXCEPT !.used = st.used, !.dest = st.dest, !.resp = st.resp, !.pc = "batch"]

\* lines 355-413: the slice of the next BATCH_SIZE moves is mapped to its calls
dispatchBatch(ps) ==
    LET st == dispatch(ps.toProcess, ps.i + 1, Min(ps.i + BATCH_SIZE, Len(ps.toProcess)),
                       ps.free, [used |-> ps.used, dest |-> ps.dest, resp |-> ps.resp])
    IN [ps EXCEPT !.used = st.used, !.dest = st.dest, !.resp = st.resp, !.pc = "batch"]

\* a bug that reports a 404 as a failure
moveResult404Fails(move, resp) ==
    IF resp = "ok" THEN [success |-> TRUE, lotCode |-> move.lotCode, error |-> ""]
    ELSE [success |-> FALSE, lotCode |-> move.lotCode, error |-> resp]

\* lines 387-412: what the async callback returns for a move, from the way
\* its call ended ("ok", "404", "error") or the no-slot message
moveResult(move, resp) ==
    IF resp = "ok" THEN [success |-> TRUE, lotCode |-> move.lotCode, error |-> ""]
    ELSE IF resp = "404"
    THEN [success |-> TRUE, lotCode |-> move.lotCode, error |-> "Recovered"]
    ELSE [success |-> FALSE, lotCode |-> move.lotCode, error |-> resp]

\* a bug that sends already-exported moves to the server as well
movesToProcessAll(moves, deletedSet) == moves

\* lines 287-297
movesToProcess(moves, deletedSet) ==
    SelectSeq(moves, LAMBDA m : m.lotCode \notin deletedSet)

\* a bug that forgets the moves it skipped
alreadyExportedNone(moves, deletedSet) == << >>

\* lines 288-293
alreadyExported(moves, deletedSet) ==
    LET ex == SelectSeq(moves, LAMBDA m : m.lotCode \in deletedSet)
    IN [k \in 1..Len(ex) |-> ex[k].lotCode]

\* line 433: prev.filter(m => !allCleared.includes(m.lotCode))
filterCleared(prev, allCleared) ==
    SelectSeq(prev, LAMBDA m : m.lotCode \notin allCleared)

(***************************************************************************)
(* WorkScreen.tsx: handleSync, one action per resumption of the async      *)
(* function.  A pass record holds the call's local variables; `appended`   *)
(* (the moves scanned while the pass runs) is bookkeeping of the model.    *)
(***************************************************************************)
Active(p) == pass[p].pc \notin {"unused", "done"}

seqOf(f, from, to) == [k \in 1..(to - from + 1) |-> f[from + k - 1]]

\* a bug that leaves the recovered moves out of the success count
successCountNoRecovered(results) ==
    Cardinality({k \in 1..Len(results) : results[k].success /\ results[k].error = ""})

\* lines 426-427 and 440-450: the counts and the alert of the report
successCount(results) == Cardinality({k \in 1..Len(results) : results[k].success})
failedCount(results) == Cardinality({k \in 1..Len(results) : ~results[k].success})
reportAlert(results) == IF failedCount(results) > 0 THEN "partial" ELSE "complete"

\* what is kept of a pass once handleSync returned: the queue it read, the
\* deleted lots it was given, and what its alert reported
Finished(ps, alert) ==
    [pc |-> "done", alert |-> alert, moves |-> ps.moves, deletedSet |-> ps.deletedSet,
     succeeded |-> successCount(ps.results), skipped |-> Len(ps.exported),
     failed |-> failedCount(ps.results)]

\* lines 271-280: the Sync button of the order list
SyncStart ==
    /\ selectedOrder = NoOrder
    /\ ~isSyncing
    /\ Len(pendingMoves) > 0
    /\ nPasses < MaxPasses
    /\ nPasses' = nPasses + 1
    /\ isSyncing' = TRUE
    /\ pass' = [pass EXCEPT ![nPasses + 1] =
                  [pc |-> "getDeleted", moves |-> pendingMoves, deletedFetch |-> "pending",
                   deletedSet |-> {}, exported |-> << >>, toProcess |-> << >>, free |-> {}, used |-> {},
                   i |-> 0, dest |-> << >>, resp |-> << >>, results |-> << >>,
                   appended |-> {}]]
    /\ UNCHANGED << pendingMoves, lastSyncTime, selectedOrder, movedLots, scanned,
                    isProcessing, scan, loadPc, storedMoves, storedSync, writes, nextId,
                    nScans, nRejects, reportedSaved, codecVars, auxVars >>

\* lines 281-323 with the items getDeletedLots returned
afterDeleted(p, items, fetch) ==
    LET ps == pass[p]
        ex == alreadyExported(ps.moves, items)
        tp == movesToProcess(ps.moves, items)
        ps1 == [ps EXCEPT !.deletedFetch = fetch, !.deletedSet = items, !.exported = ex, !.toProcess = tp,
                          !.dest = [k \in 1..Len(tp) |-> ""],
                          !.resp = [k \in 1..Len(tp) |-> "unsent"]]
    IN IF Len(tp) = 0
       THEN /\ setPendingMoves(<< >>)
            /\ lastSyncTime' = p
            /\ pass' = [pass EXCEPT ![p] = [ps1 EXCEPT !.pc = "saveSyncAll"]]
       ELSE /\ UNCHANGED << pendingMoves, writes, lastSyncTime >>
            /\ pass' = [pass EXCEPT ![p] = [ps1 EXCEPT !.pc = "getPositions"]]

\* GET /lots/deleted answered
GetDeletedDone(p, items) ==
    /\ pass[p].pc = "getDeleted"
    /\ afterDeleted(p, items, "ok")
    /\ UNCHANGED << isSyncing, selectedOrder, movedLots, scanned, isProcessing, scan,
                    loadPc, nPasses, storedMoves, storedSync, nextId, nScans, nRejects, reportedSaved, codecVars, auxVars >>

\* GET /lots/deleted failed: db.ts lines 123-126 return { ok: false, items: [] }
GetDeletedFail(p) ==
    /\ pass[p].pc = "getDeleted"
    /\ afterDeleted(p, {}, "failed")
    /\ UNCHANGED << isSyncing, selectedOrder, movedLots, scanned, isProcessing, scan,
                    loadPc, nPasses, storedMoves, storedSync, nextId, nScans, nRejects, reportedSaved, codecVars, auxVars >>

\* lines 300-313 after setItem(work_last_sync) of the all-exported branch
SaveSyncAllDone(p) ==
    /\ pass[p].pc = "saveSyncAll"
    /\ storedSync' = p
    /\ isSyncing' = FALSE
    /\ pass' = [pass EXCEPT ![p] = [@ EXCEPT !.pc = "refetchAll"]]
    /\ UNCHANGED << pendingMoves, lastSyncTime, selectedOrder, movedLots, scanned,
                    isProcessing, scan, loadPc, nPasses, storedMoves, writes, nextId,
                    nScans, nRejects, reportedSaved, codecVars, auxVars >>

\* lines 323-359: GET /locations/positions answered, the first batch is sent
GetPositionsDone(p, free) ==
    /\ pass[p].pc = "getPositions"
    /\ pass' = [pass EXCEPT ![p] = dispatchBatch([@ EXCEPT !.free = free])]
    /\ UNCHANGED << pendingMoves, lastSyncTime, isSyncing, selectedOrder, movedLots,
                    scanned, isProcessing, scan, loadPc, nPasses, storedMoves, storedSync,
                    writes, nextId, nScans, nRejects, reportedSaved, codecVars, auxVars >>

\* GET /locations/positions failed: the catch and finally of lines 454-459
GetPositionsFail(p) ==
    /\ pass[p].pc = "getPositions"
    /\ isSyncing' = FALSE
    /\ pass' = [pass EXCEPT ![p] = Finished(@, "error")]
    /\ UNCHANGED << pendingMoves, lastSyncTime, selectedOrder, movedLots, scanned,
                    isProcessing, scan, loadPc, nPasses, storedMoves, storedSync, writes,
                    nextId, nScans, nRejects, reportedSaved, codecVars, auxVars >>

\* POST /locations/positions/move of move k answered
MoveDone(p, k, outcome) ==
    /\ pass[p].pc = "batch"
    /\ k \in BatchIdx(pass[p])
    /\ pass[p].resp[k] = "pending"
    /\ outcome # "ok" => nRejects < MaxRejects
    /\ nRejects' = IF outcome = "ok" THEN nRejects ELSE nRejects + 1
    /\ pass' = [pass EXCEPT ![p].resp[k] = outcome]
    /\ UNCHANGED << pendingMoves, lastSyncTime, isSyncing, selectedOrder, movedLots,
                    scanned, isProcessing, scan, loadPc, nPasses, storedMoves, storedSync,
                    writes, nextId, nScans, reportedSaved, codecVars, auxVars >>

\* a bug that lets a batch with a failed callback never settle
batchSettledAllOk(ps) == \A k \in BatchIdx(ps) : ps.resp[k] = "ok"

\* line 416: Promise.all resolves once every callback of the batch returned;
\* no callback throws (lines 387-412), so it never rejects
batchSettled(ps) == \A k \in BatchIdx(ps) : ps.resp[k] # "pending"

\* lines 416-437: Promise.all of the batch resolved; after the last batch
\* the cleanup runs up to await setItem(work_last_sync)
BatchDone(p) ==
    /\ pass[p].pc = "batch"
    /\ batchSettled(pass[p])
    /\ LET ps == pass[p]
           last == Min(ps.i + BATCH_SIZE, Len(ps.toProcess))
           batchResults == [k \in 1..(last - ps.i) |->
                              moveResult(ps.toProcess[ps.i + k], ps.resp[ps.i + k])]
           results == ps.results \o batchResults
           successfulLots == {results[k].lotCode : k \in {j \in 1..Len(results) : results[j].success}}
           allCleared == successfulLots \cup Range(ps.exported)
           ps1 == [ps EXCEPT !.results = results]
       IN IF ps.i + BATCH_SIZE < Len(ps.toProcess)
          THEN /\ pass' = [pass EXCEPT ![p] = [ps1 EXCEPT !.pc = "delay"]]
               /\ UNCHANGED << pendingMoves, writes, lastSyncTime >>
          ELSE IF allCleared # {}
          THEN /\ setPendingMoves(filterCleared(pendingMoves, allCleared))
               /\ lastSyncTime' = p
               /\ pass' = [pass EXCEPT ![p] = [ps1 EXCEPT !.pc = "saveSync"]]
          ELSE /\ pass' = [pass EXCEPT ![p] = [ps1 EXCEPT !.pc = "refetch"]]
               /\ UNCHANGED << pendingMoves, writes, lastSyncTime >>
    /\ UNCHANGED << isSyncing, selectedOrder, movedLots, scanned, isProcessing, scan,
                    loadPc, nPasses, storedMoves, storedSync, nextId, nScans, nRejects, reportedSaved, codecVars, auxVars >>

\* lines 420-422 and 355-359: the delay elapsed, the next batch is sent
DelayDone(p) ==
    /\ pass[p].pc = "delay"
    /\ pass' = [pass EXCEPT ![p] = dispatchBatch([@ EXCEPT !.i = @ + BATCH_SIZE])]
    /\ UNCHANGED << pendingMoves, lastSyncTime, isSyncing, selectedOrder, movedLots,
                    scanned, isProcessing, scan, loadPc, nPasses, storedMoves, storedSync,
                    writes, nextId, nScans, nRejects, reportedSaved, codecVars, auxVars >>

\* line 436: setItem(work_last_sync) of the cleanup resolved; the report follows
SaveSyncDone(p) ==
    /\ pass[p].pc = "saveSync"
    /\ storedSync' = p
    /\ pass' = [pass EXCEPT ![p] = [@ EXCEPT !.pc = "refetch"]]
    /\ UNCHANGED << pendingMoves, lastSyncTime, isSyncing, selectedOrder, movedLots,
                    scanned, isProcessing, scan, loadPc, nPasses, storedMoves, writes,
                    nextId, nScans, nRejects, reportedSaved, codecVars, auxVars >>

\* lines 314-315 and 452-459: fetchOrders(false) returned, handleSync returns
RefetchDone(p) ==
    /\ pass[p].pc \in {"refetch", "refetchAll"}
    /\ isSyncing' = FALSE
    /\ pass' = [pass EXCEPT ![p] =
                  Finished(@, IF @.pc = "refetchAll" THEN "allExported"
                              ELSE reportAlert(@.results))]
    /\ UNCHANGED << pendingMoves, lastSyncTime, selectedOrder, movedLots, scanned,
                    isProcessing, scan, loadPc, nPasses, storedMoves, storedSync, writes,
                    nextId, nScans, nRejects, reportedSaved, codecVars, auxVars >>

\* the screen in use: scanning, persistence and sync passes
Next ==
    \/ WriteDone
    \/ \E o \in OrderIds : handleSelectOrder(o)
    \/ Back
    \/ \E data \in ScanData : onBarcodeScanned(data)
    \/ ScanSave
    \/ ScanFail
    \/ FeedbackTimeout
    \/ SyncStart
    \/ \E p \in 1..MaxPasses :
         \/ \E items \in DeletedChoices : GetDeletedDone(p, items)
         \/ GetDeletedFail(p)
         \/ SaveSyncAllDone(p)
         \/ \E free \in FreeChoices : GetPositionsDone(p, free)
         \/ GetPositionsFail(p)
         \/ \E k \in 1..MaxQueueLen, outcome \in {"ok", "404", "error"} :
              MoveDone(p, k, outcome)
         \/ BatchDone(p)
         \/ DelayDone(p)
         \/ SaveSyncDone(p)
         \/ RefetchDone(p)

\* start-up and scanning, before any sync pass
NextMount ==
    \/ WriteDone
    \/ LoadMoves
    \/ LoadSync
    \/ \E o \in OrderIds : handleSelectOrder(o)
    \/ Back
    \/ \E data \in ScanData : onBarcodeScanned(data)
    \/ ScanSave
    \/ ScanFail
    \/ FeedbackTimeout

(***************************************************************************)
(* Codec harness: formatCode is applied to a valid Slot, parseCode to the  *)
(* result; parseCode is also applied to strings that are not codes.        *)
(***************************************************************************)
Nums == 1..MaxNum

RackSlots ==
    [warehouse : {1, 2, 3}, zone : {"A", "B"}, row : Nums, level : Nums,
     pos : Nums, capacity : {1}]

HallSlots == [warehouse : {1, 2, 3}, zone : {"S"}, pos : Nums, capacity : {1}]

ValidSlots == RackSlots \cup HallSlots

BaseCodes == {"A-K1D1T1.PL1", "B-K2D10T3.PL12", "S-K3.PL7"}

EditChars == {"0", "9", "a", "s", "S", "K", "-", ".", " ", "x"}

DeleteAt(s, k) == SubSeq(s, 1, k - 1) \o SubSeq(s, k + 1, Len(s))
ReplaceAt(s, k, c) == SubSeq(s, 1, k - 1) \o c \o SubSeq(s, k + 1, Len(s))
InsertAt(s, k, c) == SubSeq(s, 1, k - 1) \o c \o SubSeq(s, k, Len(s))

\* every string one edit away from a canonical code, and a few others
InputStrings ==
    UNION { {c, toLowerCase(c), " " \o c, c \o " ", "\t" \o toLowerCase(c) \o "\n"}
            \cup {DeleteAt(c, k) : k \in 1..Len(c)}
            \cup {ReplaceAt(c, k, e) : k \in 1..Len(c), e \in EditChars}
            \cup {InsertAt(c, k, e) : k \in 1..(Len(c) + 1), e \in EditChars}
            : c \in BaseCodes }
    \cup {"", " ", "garbage", "S-K.PL1", "A-K1D1T1", "C-K1D1T1.PL1", "s-k02.pl003"}

InitCodec ==
    /\ Mounted
    /\ AuxIdle
    /\ storedMoves = NoStr
    /\ pass = [p \in 1..MaxPasses |-> NoPass]
    /\ nPasses = 0
    /\ storedSync = 0
    /\ nextId = FirstFreshId
    /\ nScans = 0
    /\ nRejects = 0
    /\ reportedSaved = {}
    /\ codecOut = Null
    /\ \/ /\ codecPc = "slot"
          /\ codecSlot \in ValidSlots
          /\ codecStr = NoStr
       \/ /\ codecPc = "code"
          /\ codecSlot = Null
          /\ codecStr \in {Str(s) : s \in InputStrings} \cup {NoStr}

CodecFormat ==
    /\ codecPc = "slot"
    /\ codecStr' = Str(formatCode(codecSlot))
    /\ codecPc' = "code"
    /\ UNCHANGED <<codecSlot, codecOut>>
    /\ UNCHANGED <<workVars, auxVars>>

CodecParse ==
    /\ codecPc = "code"
    /\ codecOut' = parseCode(codecStr)
    /\ codecPc' = "parsed"
    /\ UNCHANGED <<codecSlot, codecStr>>
    /\ UNCHANGED <<workVars, auxVars>>

NextCodec == CodecFormat \/ CodecParse

(***************************************************************************)
(* Harness of getNextEmptyHallSpots: the call's arguments are in           *)
(* codecSlot, its result in codecOut.                                      *)
(***************************************************************************)
\* the largest count asked for
MaxCount == 3

\* occupied sets GET /locations/positions can deliver (Hall codes only)
OccupiedChoices ==
    { {},
      {HallCode(1, 1), HallCode(1, 2)},
      {HallCode(1, 1), HallCode(1, 3), HallCode(2, 1)},
      {HallCode(1, i) : i \in 1..(HallScanMax - 1)},
      {HallCode(1, i) : i \in 1..HallScanMax},
      HallUniverse }

\* exclusion sets a pass can have built
ExcludeChoices ==
    { {},
      {HallCode(1, 1)},
      {HallCode(1, 3), HallCode(1, 4), HallCode(2, 1)},
      {HallCode(1, HallScanMax), HallCode(3, 2)} }

InitSpots ==
    /\ Mounted
    /\ AuxIdle
    /\ storedMoves = NoStr
    /\ pass = [p \in 1..MaxPasses |-> NoPass]
    /\ nPasses = 0
    /\ storedSync = 0
    /\ nextId = FirstFreshId
    /\ nScans = 0
    /\ nRejects = 0
    /\ reportedSaved = {}
    /\ codecPc = "spots"
    /\ codecStr = NoStr
    /\ codecOut = Null
    /\ codecSlot \in [whId : 1..3, count : 0..MaxCount, exclude : ExcludeChoices,
                      free : {HallUniverse \ occ : occ \in OccupiedChoices}]

\* const spots = getNextEmptyHallSpots(whId, count, exclude)
CallSpots ==
    /\ codecPc = "spots"
    /\ codecOut' = getNextEmptyHallSpots(codecSlot.whId, codecSlot.count,
                                         codecSlot.exclude, codecSlot.free)
    /\ codecPc' = "spotsDone"
    /\ UNCHANGED <<codecSlot, codecStr>>
    /\ UNCHANGED <<workVars, auxVars>>

NextSpots == CallSpots

(***************************************************************************)
(* AssignScreen (WorkScreen.tsx, lines 862-1606): findNextAvailablePosition *)
(* as a function of the screen's locations, occupied and items.  The       *)
(* call's arguments are in codecSlot, its result in codecOut.              *)
(***************************************************************************)
\* String.prototype.endsWith
endsWith(s, suffix) ==
    Len(suffix) <= Len(s) /\ SubSeq(s, Len(s) - Len(suffix) + 1, Len(s)) = suffix

\* String.prototype.split(/[-.]/): index of the first separator, 0 if none
FirstSep(s) ==
    LET hits == {i \in 1..Len(s) : Char(s, i) \in {"-", "."}}
    IN IF hits = {} THEN 0 ELSE CHOOSE i \in hits : \A j \in hits : i <= j

RECURSIVE splitDashDot(_)
splitDashDot(s) ==
    LET k == FirstSep(s)
    IN IF k = 0 THEN << s >>
       ELSE << SubSeq(s, 1, k - 1) >> \o splitDashDot(SubSeq(s, k + 1, Len(s)))

\* lines 1006-1009: checkToken(prefix, val)
checkToken(parts, prefix, val) ==
    \E k \in 1..Len(parts) : includes(parts[k], prefix \o ToString(val))

\* lines 1003-1015: the predicate handed to locations.find
locMatches(loc, suffix, warehouse, zone, row, level) ==
    LET upper == toUpperCase(loc)
        parts == splitDashDot(upper)
        hasWarehouse == \/ checkToken(parts, "W", warehouse)
                        \/ checkToken(parts, "K", warehouse)
                        \/ \E k \in 1..Len(parts) : parts[k] = ToString(warehouse)
        hasZone == \E k \in 1..Len(parts) : parts[k] = zone
        hasRow == \/ checkToken(parts, "D", row)
                  \/ checkToken(parts, "R", row)
                  \/ \E k \in 1..Len(parts) : parseInt(parts[k]) = row
        hasLevel == \/ checkToken(parts, "T", level)
                    \/ checkToken(parts, "L", level)
                    \/ \E k \in 1..Len(parts) : parts[k] = ToString(level)
    IN endsWith(upper, suffix) /\ hasWarehouse /\ hasZone /\ hasRow /\ hasLevel

\* Array.prototype.find: the first location the predicate accepts, NoStr
\* (undefined) when there is none
findLocation(locations, suffix, warehouse, zone, row, level) ==
    LET hits == {k \in 1..Len(locations) :
                    locMatches(locations[k], suffix, warehouse, zone, row, level)}
    IN IF hits = {} THEN NoStr
       ELSE Str(locations[CHOOSE k \in hits : \A j \in hits : k <= j])

\* lines 991-997: the keys of effectiveOccupied (every value is a non-empty
\* id): the server's occupied positions and the positions of the local items,
\* as written and in upper case
effectiveOccupied(occupied, items) ==
    occupied \cup {i.position : i \in {x \in items : x.position # ""}}
             \cup {toUpperCase(i.position) : i \in {x \in items : x.position # ""}}

\* the largest pallet index tried, line 1001
MaxPallet == 8

\* lines 1001-1021: the loop from index i on
RECURSIVE findFrom(_, _, _, _, _, _, _)
findFrom(i, locations, occ, warehouse, zone, row, level) ==
    IF i > MaxPallet THEN ""
    ELSE LET candidate == findLocation(locations, "PL" \o ToString(i),
                                       warehouse, zone, row, level)
         IN IF candidate # NoStr /\ candidate[1] \notin occ
                                 /\ toUpperCase(candidate[1]) \notin occ
            THEN candidate[1]
            ELSE findFrom(i + 1, locations, occ, warehouse, zone, row, level)

\* lines 999-1023; a null row or level is 0 (both fail the test !row)
findNextAvailablePosition(locations, occupied, items, warehouse, zone, row, level) ==
    IF row = 0 \/ level = 0 THEN ""
    ELSE findFrom(1, locations, effectiveOccupied(occupied, items),
                  warehouse, zone, row, level)

\* a ScannedItem (its timestamp and quantity, which the search does not
\* read, are left out)
ScannedItem(id, position) == [id |-> id, position |-> position, synced |-> FALSE]

\* location lists of offline_static_locations: one cell, a cell with two
\* levels, and rows 1 and 10 of two warehouses
LocationLists ==
    { << "A-K1D1T1.PL1", "A-K1D1T1.PL2", "A-K1D1T1.PL3" >>,
      << "A-K1D1T1.PL1", "A-K1D1T1.PL2", "A-K1D1T2.PL1", "A-K1D1T2.PL2" >>,
      << "A-K1D10T1.PL1", "A-K1D1T1.PL1", "A-K1D1T1.PL2", "B-K2D1T1.PL1" >> }

OccupiedMaps == { {}, {"A-K1D1T1.PL2"}, {"A-K1D1T2.PL1"}, {"A-K1D10T1.PL1", "A-K1D1T1.PL1"} }

ItemSets ==
    { {}, {ScannedItem("LOT1", "A-K1D1T1.PL1")},
      {ScannedItem("LOT1", "a-k1d1t1.pl1"), ScannedItem("LOT2", "")} }

InitFind ==
    /\ Mounted
    /\ AuxIdle
    /\ storedMoves = NoStr
    /\ pass = [p \in 1..MaxPasses |-> NoPass]
    /\ nPasses = 0
    /\ storedSync = 0
    /\ nextId = FirstFreshId
    /\ nScans = 0
    /\ nRejects = 0
    /\ reportedSaved = {}
    /\ codecPc = "find"
    /\ codecStr = NoStr
    /\ codecOut = Null
    /\ codecSlot \in [locations : LocationLists, occupied : OccupiedMaps, items : ItemSets,
                      warehouse : {1, 2}, zone : {"A", "B"}, row : 0..2, level : 0..2]

\* line 1046: position = findNextAvailablePosition(workWarehouse, workZone,
\* workRow, workLevel)
CallFind ==
    /\ codecPc = "find"
    /\ codecOut' = Str(findNextAvailablePosition(codecSlot.locations, codecSlot.occupied,
                                                 codecSlot.items, codecSlot.warehouse,
                                                 codecSlot.zone, codecSlot.row,
                                                 codecSlot.level))
    /\ codecPc' = "findDone"
    /\ UNCHANGED <<codecSlot, codecStr>>
    /\ UNCHANGED <<workVars, auxVars>>

NextFind == CallFind

(***************************************************************************)
(* db.ts: the scanned_lots table, and the pending-moves queue under the    *)
(* lot-code filter of handleSync.  codecSlot holds the table (its rows and *)
(* the last AUTOINCREMENT id), codecStr the queue, codecOut what the last  *)
(* removal was applied to.                                                 *)
(***************************************************************************)
\* rows inserted in one run of the model
MaxRows == 3

ScanCodes == {"LOT1", "LOT2"}

\* a row of scanned_lots (its timestamp, which no statement reads, is left out)
ScannedLot(id, code, quantity) ==
    [id |-> id, code |-> code, quantity |-> quantity, synced |-> 0]

\* a bug: DELETE FROM scanned_lots WHERE id <= ?
deleteRowsUpTo(rows, id) == {r \in rows : r.id > id}

\* DELETE FROM scanned_lots WHERE id = ?
deleteRows(rows, id) == {r \in rows : r.id # id}

\* UPDATE scanned_lots SET synced = 1 WHERE id = ?
updateSynced(rows, id) ==
    {IF r.id = id THEN [r EXCEPT !.synced = 1] ELSE r : r \in rows}

\* the allCleared lists the filter of line 433 is applied with
ClearedChoices == {{"L1"}, {"L2", "L3"}, {"L9"}}

InitStore ==
    /\ Mounted
    /\ AuxIdle
    /\ storedMoves = NoStr
    /\ pass = [p \in 1..MaxPasses |-> NoPass]
    /\ nPasses = 0
    /\ storedSync = 0
    /\ nextId = FirstFreshId
    /\ nScans = 0
    /\ nRejects = 0
    /\ reportedSaved = {}
    /\ codecPc = "store"
    /\ codecSlot = [rows |-> {}, lastId |-> 0]
    /\ codecStr \in {Str(q) : q \in InitialQueues}
    /\ codecOut = Null

\* database.addScan(code, 1)
addScan(code) ==
    /\ codecPc = "store"
    /\ codecSlot.lastId < MaxRows
    /\ codecSlot' = [rows |-> codecSlot.rows \cup {ScannedLot(codecSlot.lastId + 1, code, 1)},
                     lastId |-> codecSlot.lastId + 1]
    /\ codecOut' = Null
    /\ UNCHANGED <<codecPc, codecStr>>
    /\ UNCHANGED <<workVars, auxVars>>

\* database.markAsSynced(id)
markAsSynced(id) ==
    /\ codecPc = "store"
    /\ codecSlot' = [codecSlot EXCEPT !.rows = updateSynced(@, id)]
    /\ codecOut' = Null
    /\ UNCHANGED <<codecPc, codecStr>>
    /\ UNCHANGED <<workVars, auxVars>>

\* database.deleteScan(id)
deleteScan(id) ==
    /\ codecPc = "store"
    /\ codecSlot' = [codecSlot EXCEPT !.rows = deleteRows(@, id)]
    /\ codecOut' = [op |-> "deleteScan", id |-> id, before |-> codecSlot.rows]
    /\ UNCHANGED <<codecPc, codecStr>>
    /\ UNCHANGED <<workVars, auxVars>>

\* database.clearAll()
clearAll ==
    /\ codecPc = "store"
    /\ codecSlot' = [codecSlot EXCEPT !.rows = {}]
    /\ codecOut' = Null
    /\ UNCHANGED <<codecPc, codecStr>>
    /\ UNCHANGED <<workVars, auxVars>>

\* line 433 applied to the queue with the list allCleared
FilterQueue(allCleared) ==
    /\ codecPc = "store"
    /\ codecStr' = Str(filterCleared(codecStr[1], allCleared))
    /\ codecOut' = [op |-> "filter", allCleared |-> allCleared, before |-> codecStr[1]]
    /\ UNCHANGED <<codecPc, codecSlot>>
    /\ UNCHANGED <<workVars, auxVars>>

NextStore ==
    \/ \E code \in ScanCodes : addScan(code)
    \/ \E id \in 1..(MaxRows + 1) : markAsSynced(id)
    \/ \E id \in 1..(MaxRows + 1) : deleteScan(id)
    \/ clearAll
    \/ \E allCleared \in ClearedChoices : FilterQueue(allCleared)

(***************************************************************************)
(* useOfflineLookup: loadIndex and lookupLot.  The regular expression of   *)
(* line 145 is run as a backtracking matcher does: every element yields    *)
(* its ways to match in order of preference, the first complete match at   *)
(* the leftmost start wins, and a group that took no part is undefined.    *)
(***************************************************************************)
CharAt(s, i) == IF i \in 1..Len(s) THEN SubSeq(s, i, i) ELSE ""

RECURSIVE Flatten(_)
Flatten(ss) == IF ss = << >> THEN << >> ELSE Head(ss) \o Flatten(Tail(ss))

\* line 131: toUpperCase().replace(/\./g, '-')
RECURSIVE dotsToDashes(_)
dotsToDashes(s) ==
    IF s = "" THEN ""
    ELSE (IF Char(s, 1) = "." THEN "-" ELSE Char(s, 1)) \o dotsToDashes(SubSeq(s, 2, Len(s)))

IsUpperAlnum(c) == IsDigit(c) \/ \E i \in 1..26 : Char(UpperLetters, i) = c

\* The expression of line 145 is matched as the regular-expression engine
\* does, by backtracking: at every choice it tries the alternatives in order.
\* A way to match carries its rank, the number of the alternative taken at
\* each choice (0 is tried first); the engine's match is the way of the
\* smallest rank, compared choice by choice.
RECURSIVE sepRun(_, _)
sepRun(s, i) ==
    IF i <= Len(s) /\ ~IsUpperAlnum(Char(s, i)) THEN 1 + sepRun(s, i + 1) ELSE 0

\* [^A-Z0-9]* from i, greedy: the longer run is tried first
sepEnds(s, i) == {[e |-> i + n, rank |-> sepRun(s, i) - n] : n \in 0..sepRun(s, i)}

\* (\d+) from i, greedy: the longer run is tried first
digitEnds(s, i) == {[e |-> e, rank |-> DigitsEnd(s, i) - e] : e \in (i + 1)..DigitsEnd(s, i)}

\* (?:X|Y|Z)? from i: the alternatives in order, then the empty match
wordEnds(s, i, alts) ==
    {[e |-> i + Len(alts[k]), rank |-> k] : k \in {x \in 1..Len(alts) : LitAt(s, i, alts[x])}}
      \cup {[e |-> i, rank |-> Len(alts) + 1]}

\* (?:(?:KHO|K|W)?(\d+)[^A-Z0-9]*)? from i: the ways to match, then the skip
whGroup(s, i) ==
    UNION {UNION {{[e |-> p.e, cap |-> Str(SubSeq(s, w.e, d.e - 1)),
                    rank |-> << 0, w.rank, d.rank, p.rank >>] : p \in sepEnds(s, d.e)}
                  : d \in digitEnds(s, w.e)}
           : w \in wordEnds(s, i, << "KHO", "K", "W" >>)}
      \cup {[e |-> i, cap |-> NoStr, rank |-> << 1, 0, 0, 0 >>]}

\* [^A-Z0-9]*(?:X|Y)?(\d+) from i: the ways to match
numGroup(s, i, alts) ==
    UNION {UNION {{[e |-> d.e, cap |-> Str(SubSeq(s, w.e, d.e - 1)),
                    rank |-> << 0, p.rank, w.rank, d.rank >>] : d \in digitEnds(s, w.e)}
                  : w \in wordEnds(s, p.e, alts)}
           : p \in sepEnds(s, i)}

\* the same group made optional: the ways to match, then the skip
optGroup(s, i, alts) ==
    numGroup(s, i, alts) \cup {[e |-> i, cap |-> NoStr, rank |-> << 1, 0, 0, 0 >>]}

\* the complete matches of the expression that start at i
matchesAt(s, i) ==
    UNION {UNION {UNION {{[m1 |-> g1.cap, m2 |-> CharAt(s, g1.e), m3 |-> g3.cap,
                           m4 |-> g4.cap, m5 |-> g5.cap,
                           rank |-> g1.rank \o g3.rank \o g4.rank \o g5.rank]
                          : g5 \in numGroup(s, g4.e, << "P", "VT" >>)}
                        : g4 \in optGroup(s, g3.e, << "T", "L", "TANG" >>)}
                 : g3 \in optGroup(s, g1.e + 1, << "D", "R", "DAY" >>)}
           : g1 \in {g \in whGroup(s, i) : CharAt(s, g.e) \in {"A", "B", "S"}}}

\* a is tried before b
triedBefore(a, b) ==
    \E k \in 1..Len(a) : a[k] < b[k] /\ \A j \in 1..(k - 1) : a[j] = b[j]

\* line 145: upperPos.match(...), Null when nothing matches; the match is
\* the first one found from the leftmost position that has any
posMatch(s) ==
    LET starts == {i \in 1..Len(s) : matchesAt(s, i) # {}}
    IN IF starts = {} THEN Null
       ELSE LET ways == matchesAt(s, CHOOSE i \in starts : \A j \in starts : i <= j)
                m == CHOOSE x \in ways : \A y \in ways \ {x} : triedBefore(x.rank, y.rank)
            IN [m1 |-> m.m1, m2 |-> m.m2, m3 |-> m.m3, m4 |-> m.m4, m5 |-> m.m5]

\* String.prototype.padStart(2, '0')
padStart2(s) == IF Len(s) < 2 THEN SubSeq("00", 1, 2 - Len(s)) \o s ELSE s

\* line 81 and line 101, upper-cased: the keys of posToDetail
rackSig(whId, zone, rack, level, position) ==
    toUpperCase(ToString(whId) \o "-" \o zone \o "-" \o rack \o "-" \o ToString(level)
                  \o "-" \o ToString(position))

hallSig(whId, zone, position) ==
    toUpperCase(ToString(whId) \o "-" \o zone \o "-HALL-" \o ToString(position))

\* lines 30-36: occupiedMap is the sequence of the entries [pos, lot] of the
\* stored object; a later entry of the same normalised lot replaces an earlier
lotIndex(occupiedMap) ==
    LET lots == {toUpperCase(trim(occupiedMap[k].lot)) : k \in 1..Len(occupiedMap)}
        last(l) == CHOOSE k \in 1..Len(occupiedMap) :
                      /\ toUpperCase(trim(occupiedMap[k].lot)) = l
                      /\ \A j \in (k + 1)..Len(occupiedMap) :
                            toUpperCase(trim(occupiedMap[j].lot)) # l
    IN [l \in lots |-> occupiedMap[last(l)].pos]

\* lines 40-113: status[whId] is the set of the items of the stored status of
\* warehouse whId (the empty set when the key is absent); an item is on a rack
\* level or in the hall of its zone
itemSig(whId, it) ==
    IF it.hall THEN hallSig(whId, it.zone, it.position)
    ELSE rackSig(whId, it.zone, it.rack, it.level, it.position)

posIndex(status) ==
    LET held == {h \in (1..3) \X UNION {status[x] : x \in 1..3} : h[2] \in status[h[1]]}
    IN [sg \in {itemSig(h[1], h[2]) : h \in held} |->
          [productCode |-> (CHOOSE h \in held : itemSig(h[1], h[2]) = sg)[2].code]]

\* lines 23-118
loadIndex(occupiedMap, status) ==
    [lotToPos |-> lotIndex(occupiedMap), posToDetail |-> posIndex(status)]

\* line 160: the warehouses tried for a hall position
hallWarehouses(m) == << 1, 2, 3 >>

\* line 170: the warehouses tried for a rack position
rackWarehouses(m) == IF m.m1 # NoStr THEN << parseInt(m.m1[1]) >> ELSE << 1, 2, 3 >>

\* lines 160-178: the keys tried, in order
lookupKeys(m) ==
    LET z == m.m2
        r == IF m.m3 # NoStr THEN m.m3[1] ELSE "0"
        l == IF m.m4 # NoStr THEN m.m4[1] ELSE "0"
        p == ToString(parseInt(m.m5[1]))
    IN IF z = "S" \/ (z = "B" /\ m.m3 = NoStr)
       THEN [k \in 1..Len(hallWarehouses(m)) |->
               ToString(hallWarehouses(m)[k]) \o "-" \o z \o "-HALL-" \o p]
       ELSE Flatten([k \in 1..Len(rackWarehouses(m)) |->
               << ToString(rackWarehouses(m)[k]) \o "-" \o z \o "-" \o r \o "-" \o l \o "-" \o p,
                  ToString(rackWarehouses(m)[k]) \o "-" \o z \o "-" \o padStart2(r) \o "-" \o l
                     \o "-" \o p >>])

\* position strings of the stored occupancy: with and without a warehouse,
\* on a rack and in the hall, and the two canonical codes of formatCode
PosStrings == {"K2-A-D1-T1-P1", "A-D1-T1-P1", "K2-S-5", "S-5", "W3.A.R1.L1.P1",
               "A-K1D1T1.PL1", "S-K2.PL5"}

\* lines 131 and 145 on the position strings that occur in the stored
\* snapshots, computed once
PosMatchTable == [p \in PosStrings |-> posMatch(dotsToDashes(toUpperCase(p)))]

matchOf(posString) ==
    IF posString \in PosStrings THEN PosMatchTable[posString]
    ELSE posMatch(dotsToDashes(toUpperCase(posString)))

\* lines 124-183: the OfflineItem found, or Null
lookupLot(index, lotCode) ==
    LET normLot == toUpperCase(trim(lotCode))
    IN IF normLot \notin DOMAIN index.lotToPos \/ index.lotToPos[normLot] = "" THEN Null
       ELSE LET posString == index.lotToPos[normLot]
                m == matchOf(posString)
            IN IF m = Null THEN Null
               ELSE LET keys == lookupKeys(m)
                        hits == {k \in 1..Len(keys) : keys[k] \in DOMAIN index.posToDetail}
                    IN IF hits = {} THEN Null
                       ELSE LET k == CHOOSE k \in hits : \A j \in hits : k <= j
                            IN [productCode |-> index.posToDetail[keys[k]].productCode,
                                lotCode |-> normLot, position |-> posString]

(***************************************************************************)
(* Lookup harness: an index built by loadIndex from a stored snapshot is   *)
(* asked for a lot.                                                        *)
(***************************************************************************)
RackItem(code) ==
    [hall |-> FALSE, zone |-> "A", rack |-> "1", level |-> 1, position |-> 1, code |-> code]

HallItem(code) ==
    [hall |-> TRUE, zone |-> "S", rack |-> "", level |-> 0, position |-> 5, code |-> code]

\* the stored status of warehouse w: any of a rack item and a hall item,
\* whose product codes tell the warehouse
StatusOf(w) == SUBSET {RackItem("R" \o ToString(w)), HallItem("H" \o ToString(w))}

StatusChoices == {st \in [1..3 -> UNION {StatusOf(w) : w \in 1..3}] :
                     \A w \in 1..3 : st[w] \in StatusOf(w)}

OccupiedSnapshots == {<< [pos |-> p, lot |-> " l1"] >> : p \in PosStrings}

LookupLots == {"L1", "l1 ", "L9"}

InitLookup ==
    /\ Mounted
    /\ AuxIdle
    /\ storedMoves = NoStr
    /\ pass = [p \in 1..MaxPasses |-> NoPass]
    /\ nPasses = 0
    /\ storedSync = 0
    /\ nextId = FirstFreshId
    /\ nScans = 0
    /\ nRejects = 0
    /\ reportedSaved = {}
    /\ codecPc = "lookup"
    /\ codecStr = NoStr
    /\ codecOut = Null
    /\ \E occ \in OccupiedSnapshots, st \in StatusChoices : codecSlot = loadIndex(occ, st)

\* lookupLot(code) of the scan screen
CallLookup(lot) ==
    /\ codecPc = "lookup"
    /\ codecStr' = Str(lot)
    /\ codecOut' = lookupLot(codecSlot, lot)
    /\ codecPc' = "lookupDone"
    /\ UNCHANGED codecSlot
    /\ UNCHANGED <<workVars, auxVars>>

NextLookup == \E lot \in LookupLots : CallLookup(lot)

(***************************************************************************)
(* AssignScreen: the scanned items, the occupied map and the bulk sync;    *)
(* syncService.syncData over the rows of scanned_lots.  An item carries    *)
(* the identity (ref) of its object: handleUpdatePosition writes into the  *)
(* object in place, and the list `pending` of a running handleSync holds   *)
(* the same objects.                                                       *)
(***************************************************************************)
\* position edits and barcode scans of AssignScreen in one run
MaxEdits == 2
MaxAssignScans == 2

\* offline_static_locations of the harness, and the work settings
\* (warehouse 1, zone A, row 1, level 1) of lines 901-904
AssignLocations == << "A-K1D1T1.PL1", "A-K1D1T1.PL2", "A-K1D1T1.PL3" >>

\* the texts typed into a position field
EditTexts == {"a-k1d1t1.pl3", ""}

\* obj[key] = value on an object kept as the sequence of its entries
setKey(m, pos, lot) ==
    IF \E k \in 1..Len(m) : m[k].pos = pos
    THEN [k \in 1..Len(m) |-> IF m[k].pos = pos THEN [pos |-> pos, lot |-> lot] ELSE m[k]]
    ELSE Append(m, [pos |-> pos, lot |-> lot])

\* lines 1132-1133: { ...occupied } with the positions of the pending items
RECURSIVE patchOccupied(_, _)
patchOccupied(occupied, pending) ==
    IF pending = << >> THEN occupied
    ELSE LET i == Head(pending)
         IN patchOccupied(IF i.position # ""
                          THEN setKey(setKey(occupied, i.position, i.id),
                                      toUpperCase(i.position), i.id)
                          ELSE occupied,
                          Tail(pending))

\* line 1122: items.filter(i => !i.synced && i.position.trim())
pendingItems(items) == SelectSeq(items, LAMBDA i : ~i.synced /\ trim(i.position) # "")

\* lines 1130-1131: prev.map(i => syncedIds.has(i.id) ? { ...i, synced: true } : i)
markSynced(items, pending) ==
    [k \in 1..Len(items) |->
       IF \E j \in 1..Len(pending) : pending[j].id = items[k].id
       THEN [items[k] EXCEPT !.synced = TRUE] ELSE items[k]]

\* lines 1040-1058
handleScan(code) ==
    /\ assign.pc \in {"idle", "posting"}
    /\ assign.scans < MaxAssignScans
    /\ LET prev == assign.items
           existing == {k \in 1..Len(prev) : prev[k].id = code}
           position == IF existing # {}
                       THEN prev[CHOOSE k \in existing : \A j \in existing : k <= j].position
                       ELSE findNextAvailablePosition(AssignLocations,
                                {assign.occupied[k].pos : k \in 1..Len(assign.occupied)},
                                Range(prev), 1, "A", 1, 1)
           newItem == [ref |-> assign.nextRef, id |-> code, position |-> position,
                       synced |-> FALSE]
       IN assign' = [assign EXCEPT
                       !.items = << newItem >> \o SelectSeq(prev, LAMBDA i : i.id # code),
                       !.nextRef = @ + 1, !.scans = @ + 1]
    /\ UNCHANGED <<workVars, codecVars, offline, auth, download, sync>>

\* lines 1063-1067: the object of the item is written in place
handleUpdatePosition(index, text) ==
    /\ assign.pc \in {"idle", "posting"}
    /\ assign.edits < MaxEdits
    /\ index \in 1..Len(assign.items)
    /\ ~assign.items[index].synced
    /\ LET ref == assign.items[index].ref
       IN assign' = [assign EXCEPT
                       !.items[index] = [@ EXCEPT !.position = text, !.synced = FALSE],
                       !.pending = [k \in 1..Len(@) |->
                                      IF @[k].ref = ref THEN [@[k] EXCEPT !.position = text]
                                      ELSE @[k]],
                       !.edits = @ + 1]
    /\ UNCHANGED <<workVars, codecVars, offline, auth, download, sync>>

\* lines 1121-1128: the Sync button, up to await client.post('/scan/sync')
AssignSyncStart ==
    /\ assign.pc = "idle"
    /\ pendingItems(assign.items) # << >>
    /\ LET pending == pendingItems(assign.items)
       IN assign' = [assign EXCEPT
                       !.pc = "posting", !.pending = pending,
                       !.sent = [k \in 1..Len(pending) |->
                                   [code |-> pending[k].id, position |-> pending[k].position]],
                       !.alert = ""]
    /\ UNCHANGED <<workVars, codecVars, offline, auth, download, sync>>

\* lines 1129-1136 and 1143: the server answered ok
AssignSyncOk ==
    /\ assign.pc = "posting"
    /\ LET newOccupied == patchOccupied(assign.occupied, assign.pending)
       IN /\ assign' = [assign EXCEPT
                          !.pc = "idle",
                          !.items = markSynced(@, assign.pending),
                          !.occupied = newOccupied, !.pending = << >>, !.alert = "ok"]
          /\ offline' = [offline EXCEPT !.occupied = newOccupied]
    /\ UNCHANGED <<workVars, codecVars, auth, download, sync>>

\* line 1137: the server answered with ok false
AssignSyncNotOk ==
    /\ assign.pc = "posting"
    /\ assign' = [assign EXCEPT !.pc = "idle", !.pending = << >>, !.alert = "notOk"]
    /\ UNCHANGED <<workVars, codecVars, offline, auth, download, sync>>

\* lines 1138-1143: the request failed
AssignSyncFail ==
    /\ assign.pc = "posting"
    /\ assign' = [assign EXCEPT !.pc = "idle", !.pending = << >>, !.alert = "failed"]
    /\ UNCHANGED <<workVars, codecVars, offline, auth, download, sync>>

\* a bug that marks the rows before the answer is looked at
markAllBeforeAnswer(rows, pendingData, ok) ==
    {IF \E d \in pendingData : d.id = r.id THEN [r EXCEPT !.synced = 1] ELSE r : r \in rows}

\* sync.ts lines 20-24: database.markAsSynced(item.id) for every item sent,
\* when response.data.ok
markAfterAnswer(rows, pendingData, ok) ==
    IF ok
    THEN {IF \E d \in pendingData : d.id = r.id THEN [r EXCEPT !.synced = 1] ELSE r : r \in rows}
    ELSE rows

\* the history screen's handleSync, up to await client.post of sync.ts line 18
SyncDataStart ==
    /\ codecPc = "store"
    /\ sync.pc \in {"idle", "returned", "thrown"}
    /\ {r \in codecSlot.rows : r.synced = 0} # {}
    /\ sync' = [pc |-> "posting", pendingData |-> {r \in codecSlot.rows : r.synced = 0},
                error |-> ""]
    /\ UNCHANGED <<workVars, codecVars, assign, offline, auth, download>>

\* sync.ts lines 20-28: the server answered, with ok true or false
SyncDataAnswer(ok) ==
    /\ sync.pc = "posting"
    /\ codecSlot' = [codecSlot EXCEPT !.rows = markAfterAnswer(@, sync.pendingData, ok)]
    /\ sync' = [sync EXCEPT !.pc = IF ok THEN "returned" ELSE "thrown",
                             !.error = IF ok THEN "" ELSE "Sync failed"]
    /\ UNCHANGED <<codecPc, codecStr, codecOut>>
    /\ UNCHANGED <<workVars, assign, offline, auth, download>>

\* sync.ts lines 29-32: the request failed, the error is thrown again
SyncDataFail ==
    /\ sync.pc = "posting"
    /\ sync' = [sync EXCEPT !.pc = "thrown", !.error = "Network Error"]
    /\ UNCHANGED <<workVars, codecVars, assign, offline, auth, download>>

\* the stored snapshot of the occupancy and of the three warehouses, with
\* the index useOfflineLookup built from it when its screen was mounted
Snapshot(occ, st) ==
    [pc |-> "idle", occupied |-> occ, status |-> st, index |-> loadIndex(occ, st),
     waiting |-> {}, rejected |-> FALSE, lastUpdated |-> 0, alert |-> "", downloads |-> 0]

NoStatus == [w \in 1..3 |-> {}]

\* AssignScreen after loadOfflineData, with the items of an earlier run
AssignMounted(items, occ) ==
    [pc |-> "idle", items |-> items, pending |-> << >>, sent |-> << >>, occupied |-> occ,
     nextRef |-> Len(items) + 1, scans |-> 0, edits |-> 0, alert |-> ""]

InitAssign ==
    /\ Mounted
    /\ storedMoves = NoStr
    /\ pass = [p \in 1..MaxPasses |-> NoPass]
    /\ nPasses = 0
    /\ storedSync = 0
    /\ nextId = FirstFreshId
    /\ nScans = 0
    /\ nRejects = 0
    /\ reportedSaved = {}
    /\ codecSlot = [rows |-> {}, lastId |-> 0]
    /\ codecStr = NoStr
    /\ codecOut = Null
    /\ auth = Off
    /\ download = Off
    /\ \E occ \in {<< >>, << [pos |-> "A-K1D1T1.PL1", lot |-> "LOT9"] >>} :
         /\ offline = Snapshot(occ, NoStatus)
         \* App.tsx lines 52-57: one screen is mounted at a time
         /\ \/ assign = AssignMounted(<< >>, occ) /\ sync = Off /\ codecPc = "off"
            \/ assign = Off /\ sync = [pc |-> "idle"] /\ codecPc = "store"

NextAssign ==
    \/ \E code \in ScanCodes : handleScan(code)
    \/ \E index \in 1..MaxAssignScans, text \in EditTexts : handleUpdatePosition(index, text)
    \/ AssignSyncStart
    \/ AssignSyncOk
    \/ AssignSyncNotOk
    \/ AssignSyncFail
    \/ \E code \in ScanCodes : addScan(code)
    \/ SyncDataStart
    \/ \E ok \in BOOLEAN : SyncDataAnswer(ok)
    \/ SyncDataFail

(***************************************************************************)
(* useDataSync.syncAllData beside useOfflineLookup: the requests run in    *)
(* parallel and each stores its answer; AssignScreen writes the occupancy  *)
(* key too.                                                                *)
(***************************************************************************)
\* downloads started in one run
MaxDownloads == 1

\* the requests of syncAllData: p2, the three of p4, and p1 and p3 (which
\* store keys the index does not read) as one
DownloadRequests == {"occupied", "status1", "status2", "status3", "orders"}

\* what the server holds at the time of the download
FreshOccupied == << [pos |-> "K2-A-D1-T1-P1", lot |-> "L1"] >>
FreshStatus == [w \in 1..3 |-> IF w = 2 THEN {RackItem("R2")} ELSE {}]

\* what an earlier download left in storage
StaleOccupied == << [pos |-> "K1-A-D1-T1-P1", lot |-> "L1"] >>
StaleStatus == [w \in 1..3 |-> IF w = 1 THEN {RackItem("R1")} ELSE {}]

\* lines 28-31 and 78-82: the then-handler of a request stores its answer
storeAnswer(off, r, ok) ==
    IF r = "occupied" THEN (IF ok THEN [off EXCEPT !.occupied = FreshOccupied] ELSE off)
    ELSE IF r = "status1" THEN [off EXCEPT !.status[1] = FreshStatus[1]]
    ELSE IF r = "status2" THEN [off EXCEPT !.status[2] = FreshStatus[2]]
    ELSE IF r = "status3" THEN [off EXCEPT !.status[3] = FreshStatus[3]]
    ELSE off

\* lines 19-82: the download button; every request is sent
syncAllData ==
    /\ offline.pc = "idle"
    /\ offline.waiting = {}
    /\ offline.downloads < MaxDownloads
    /\ offline' = [offline EXCEPT !.pc = "downloading", !.waiting = DownloadRequests,
                                  !.rejected = FALSE, !.alert = "", !.downloads = @ + 1]
    /\ UNCHANGED <<workVars, codecVars, assign, auth, download, sync>>

\* a request is answered; ok is the ok flag of the answer (read for
\* /scanner/occupied only)
DownloadAnswer(r, ok) ==
    /\ r \in offline.waiting
    /\ offline' = [storeAnswer(offline, r, ok) EXCEPT !.waiting = @ \ {r}]
    /\ UNCHANGED <<workVars, codecVars, assign, auth, download, sync>>

\* a request fails: Promise.all rejects on the first failure, lines 96-101;
\* the other requests stay in flight
DownloadReject(r) ==
    /\ r \in offline.waiting
    /\ offline' = [offline EXCEPT
                     !.waiting = @ \ {r}, !.rejected = TRUE,
                     !.pc = "idle",
                     !.alert = IF offline.rejected THEN @ ELSE "error"]
    /\ UNCHANGED <<workVars, codecVars, assign, auth, download, sync>>

\* lines 85-95: every request answered, the time is stored and shown
DownloadDone ==
    /\ offline.pc = "downloading"
    /\ offline.waiting = {}
    /\ ~offline.rejected
    /\ offline' = [offline EXCEPT !.pc = "idle", !.alert = "success",
                                  !.lastUpdated = offline.downloads]
    /\ UNCHANGED <<workVars, codecVars, assign, auth, download, sync>>

\* part_001 lines 120-122: the screen of the hook is mounted again
MountLookup ==
    /\ offline.pc = "idle"
    /\ offline.index # loadIndex(offline.occupied, offline.status)
    /\ offline' = [offline EXCEPT !.index = loadIndex(offline.occupied, offline.status)]
    /\ UNCHANGED <<workVars, codecVars, assign, auth, download, sync>>

\* WorkScreen.tsx lines 970-979: AssignScreen is mounted and reads its keys
MountAssign ==
    /\ assign = Off
    /\ assign' = AssignMounted(<< [ref |-> 1, id |-> "LOT1", position |-> "A-K1D1T1.PL2",
                                   synced |-> FALSE] >>, offline.occupied)
    /\ UNCHANGED <<workVars, codecVars, offline, auth, download, sync>>

InitOffline ==
    /\ Mounted
    /\ storedMoves = NoStr
    /\ pass = [p \in 1..MaxPasses |-> NoPass]
    /\ nPasses = 0
    /\ storedSync = 0
    /\ nextId = FirstFreshId
    /\ nScans = 0
    /\ nRejects = 0
    /\ reportedSaved = {}
    /\ codecPc = "off"
    /\ codecSlot = Null
    /\ codecStr = NoStr
    /\ codecOut = Null
    /\ assign = Off
    /\ auth = Off
    /\ download = Off
    /\ sync = Off
    /\ \E occ \in {<< >>, StaleOccupied}, st \in {NoStatus, StaleStatus} :
         offline = Snapshot(occ, st)

NextOffline ==
    \/ syncAllData
    \/ \E r \in DownloadRequests, ok \in BOOLEAN : DownloadAnswer(r, ok)
    \/ \E r \in DownloadRequests : DownloadReject(r)
    \/ DownloadDone
    \/ MountLookup
    \/ MountAssign
    \/ AssignSyncStart
    \/ AssignSyncOk

(***************************************************************************)
(* auth.ts: authService.login and logout over the key user_data            *)
(***************************************************************************)
\* login calls in one run
MaxLogins == 2

Usernames == {"tho", "THO", "eve"}

\* how POST /login can end: an answer with ok true, an answer with ok false
\* (a resolved response), an HTTP error status (an error with a response),
\* or no answer at all (an error with the message 'Network Error')
LoginOutcomes == {"ok", "notOk", "status401", "network"}

\* the error the catch of line 28 receives
loginError(outcome) ==
    IF outcome = "notOk" THEN [message |-> "Login failed", response |-> FALSE]
    ELSE IF outcome = "status401"
    THEN [message |-> "Request failed with status code 401", response |-> TRUE]
    ELSE [message |-> "Network Error", response |-> FALSE]

\* lines 28-54: the catch block; stored is the value of user_data
loginCatch(stored, username, error) ==
    IF error.message = "Network Error" \/ ~error.response
    THEN IF stored # NoStr /\ toLowerCase(stored[1].username) = toLowerCase(username)
         THEN [pc |-> "returned", user |-> stored[1], error |-> ""]
         ELSE [pc |-> "thrown", user |-> Null, error |-> "offline"]
    ELSE [pc |-> "thrown", user |-> Null, error |-> error.message]

\* lines 15-55: what login does with the end of its request
loginResult(stored, username, outcome) ==
    IF outcome = "ok"
    THEN [pc |-> "returned", user |-> [ok |-> TRUE, username |-> username], error |-> "",
          stored |-> Str([ok |-> TRUE, username |-> username])]
    ELSE LET c == loginCatch(stored, username, loginError(outcome))
         IN [pc |-> c.pc, user |-> c.user, error |-> c.error, stored |-> stored]

\* line 18: LoginScreen calls authService.login(username, password)
login(username) ==
    /\ auth.pc \in {"idle", "returned", "thrown"}
    /\ auth.logins < MaxLogins
    /\ auth' = [pc |-> "posting", stored |-> auth.stored, username |-> username,
                outcome |-> "", user |-> Null, error |-> "", logins |-> auth.logins + 1]
    /\ UNCHANGED <<workVars, codecVars, assign, offline, download, sync>>

\* lines 20-54: the request ended
LoginEnd(outcome) ==
    /\ auth.pc = "posting"
    /\ LET r == loginResult(auth.stored, auth.username, outcome)
       IN auth' = [auth EXCEPT !.pc = r.pc, !.user = r.user, !.error = r.error,
                               !.stored = r.stored, !.outcome = outcome]
    /\ UNCHANGED <<workVars, codecVars, assign, offline, download, sync>>

\* lines 57-59
logout ==
    /\ auth.pc = "returned"
    /\ auth.stored # NoStr
    /\ auth' = [auth EXCEPT !.pc = "idle", !.stored = NoStr, !.user = Null]
    /\ UNCHANGED <<workVars, codecVars, assign, offline, download, sync>>

InitAuth ==
    /\ Mounted
    /\ storedMoves = NoStr
    /\ pass = [p \in 1..MaxPasses |-> NoPass]
    /\ nPasses = 0
    /\ storedSync = 0
    /\ nextId = FirstFreshId
    /\ nScans = 0
    /\ nRejects = 0
    /\ reportedSaved = {}
    /\ codecPc = "off"
    /\ codecSlot = Null
    /\ codecStr = NoStr
    /\ codecOut = Null
    /\ assign = Off
    /\ offline = Off
    /\ download = Off
    /\ sync = Off
    /\ \E stored \in {NoStr, Str([ok |-> TRUE, username |-> "Tho"])} :
         auth = [pc |-> "idle", stored |-> stored, username |-> "", outcome |-> "",
                 user |-> Null, error |-> "", logins |-> 0]

NextAuth ==
    \/ \E username \in Usernames : login(username)
    \/ \E outcome \in LoginOutcomes : LoginEnd(outcome)
    \/ logout

(***************************************************************************)
(* WorkScreen.tsx: fetchOrders and handleDownload                          *)
(***************************************************************************)
\* presses of the download button in one run
MaxFetches == 2

\* what the three requests of lines 184-188 can answer
ServerOrders ==
    { << >>,
      << [id |-> "O1", lotCodes |-> << "L1", " l2" >>] >> }
ServerDeleted == { << >>, << "L2" >> }
ServerPositions ==
    { << >>,
      << [lotCode |-> "l1 ", posCode |-> "S-01-05"],
         [lotCode |-> "L2", posCode |-> "A-K1D1T1.PL2"] >> }

\* lines 203-206: lot code (normalised) -> posCode, a later entry replacing
\* an earlier one; NoStr when the lot has no position
positionMap(allPositions, lot) ==
    LET hits == {i \in 1..Len(allPositions) : norm(allPositions[i].lotCode) = lot}
    IN IF hits = {} THEN NoStr
       ELSE Str(allPositions[CHOOSE i \in hits : \A j \in hits : j <= i].posCode)

\* lines 212-226: the status of one lot of an order
realtimeStatus(lotRaw, deletedItems, allPositions) ==
    LET lot == norm(lotRaw)
        currentPos == positionMap(allPositions, lot)
    IN IF \E i \in 1..Len(deletedItems) : norm(deletedItems[i]) = lot
       THEN Str("exported")
       ELSE IF currentPos # NoStr /\ Len(currentPos[1]) >= 2
               /\ SubSeq(currentPos[1], 1, 2) = "S-"
       THEN currentPos
       ELSE NoStr

\* lines 209-232
processedOrders(fetchedOrders, deletedItems, allPositions) ==
    [k \in 1..Len(fetchedOrders) |->
        [id |-> fetchedOrders[k].id,
         lotCodes |-> fetchedOrders[k].lotCodes,
         realtimeStatus |->
            [i \in 1..Len(fetchedOrders[k].lotCodes) |->
                realtimeStatus(fetchedOrders[k].lotCodes[i], deletedItems, allPositions)]]]

\* lines 248-250: the download button (disabled while isDownloading)
handleDownload ==
    /\ download.pc = "idle"
    /\ download.fetches < MaxFetches
    /\ download' = [download EXCEPT !.pc = "fetching", !.isDownloading = TRUE,
                                     !.alerts = << >>, !.fetched = "",
                                     !.fetches = @ + 1]
    /\ UNCHANGED <<workVars, codecVars, assign, offline, auth, sync>>

\* lines 190-235 then 253-254: the three requests answered; fetchOrders
\* returns and handleDownload takes the time
FetchOrdersOk(fetchedOrders, deletedItems, allPositions, saved) ==
    /\ download.pc = "fetching"
    /\ LET processed == processedOrders(fetchedOrders, deletedItems, allPositions)
       IN download' = [download EXCEPT
                         !.pc = "stamping", !.fetched = "ok",
                         !.orders = processed,
                         !.storedOrders = IF saved THEN Str(processed) ELSE @,
                         !.clock = @ + 1,
                         !.lastSyncTime = download.clock + 1]
    /\ UNCHANGED <<workVars, codecVars, assign, offline, auth, sync>>

\* lines 236-241 then 253-254: a request rejected; fetchOrders logs it,
\* alerts only when no orders are shown, and returns normally
FetchOrdersFail ==
    /\ download.pc = "fetching"
    /\ download' = [download EXCEPT
                      !.pc = "stamping", !.fetched = "failed",
                      !.alerts = IF Len(download.orders) = 0
                                 THEN Append(@, "using saved data") ELSE @,
                      !.clock = @ + 1,
                      !.lastSyncTime = download.clock + 1]
    /\ UNCHANGED <<workVars, codecVars, assign, offline, auth, sync>>

\* lines 255-257 and 262-264: the time stored, success reported
StampDone ==
    /\ download.pc = "stamping"
    /\ download' = [download EXCEPT !.pc = "idle", !.isDownloading = FALSE,
                                     !.storedSync = download.lastSyncTime,
                                     !.alerts = Append(@, "success")]
    /\ UNCHANGED <<workVars, codecVars, assign, offline, auth, sync>>

\* lines 258-264: setItem rejected
StampFail ==
    /\ download.pc = "stamping"
    /\ download' = [download EXCEPT !.pc = "idle", !.isDownloading = FALSE,
                                     !.alerts = Append(@, "error")]
    /\ UNCHANGED <<workVars, codecVars, assign, offline, auth, sync>>

InitDownload ==
    /\ Mounted
    /\ storedMoves = NoStr
    /\ pass = [p \in 1..MaxPasses |-> NoPass]
    /\ nPasses = 0
    /\ storedSync = 0
    /\ nextId = FirstFreshId
    /\ nScans = 0
    /\ nRejects = 0
    /\ reportedSaved = {}
    /\ codecPc = "off"
    /\ codecSlot = Null
    /\ codecStr = NoStr
    /\ codecOut = Null
    /\ assign = Off
    /\ offline = Off
    /\ auth = Off
    /\ sync = Off
    /\ \E cached \in {NoStr, Str(processedOrders(<< [id |-> "O2", lotCodes |-> << "L4" >>] >>,
                                                 << >>, << >>))} :
         download = [pc |-> "idle", isDownloading |-> FALSE, fetched |-> "",
                     orders |-> IF cached = NoStr THEN << >> ELSE cached[1],
                     storedOrders |-> cached, lastSyncTime |-> 0, storedSync |-> 0,
                     clock |-> 0, alerts |-> << >>, fetches |-> 0]

NextDownload ==
    \/ handleDownload
    \/ \E fetchedOrders \in ServerOrders, deletedItems \in ServerDeleted,
          allPositions \in ServerPositions, saved \in BOOLEAN :
         FetchOrdersOk(fetchedOrders, deletedItems, allPositions, saved)
    \/ FetchOrdersFail
    \/ StampDone
    \/ StampFail

vars == <<workVars, codecVars, auxVars>>

Spec == Init /\ [][Next]_vars

\* the resumptions of pass p: an answer or a failure of the call it awaits,
\* the storage write it awaits, or the timer of the inter-batch delay
PassStep(p) ==
    \/ \E items \in DeletedChoices : GetDeletedDone(p, items)
    \/ GetDeletedFail(p)
    \/ SaveSyncAllDone(p)
    \/ \E free \in FreeChoices : GetPositionsDone(p, free)
    \/ GetPositionsFail(p)
    \/ \E k \in 1..MaxQueueLen, outcome \in {"ok", "404", "error"} :
         MoveDone(p, k, outcome)
    \/ BatchDone(p)
    \/ DelayDone(p)
    \/ SaveSyncDone(p)
    \/ RefetchDone(p)

\* every awaited call eventually returns or fails, every timer fires: the
\* event loop resumes a pass whose awaited promise is settled
SpecLive == Init /\ [][Next]_vars /\ \A p \in 1..MaxPasses : WF_vars(PassStep(p))

SpecMount == InitMount /\ [][NextMount]_vars

SpecCodec == InitCodec /\ [][NextCodec]_vars

SpecSpots == InitSpots /\ [][NextSpots]_vars

SpecFind == InitFind /\ [][NextFind]_vars

SpecStore == InitStore /\ [][NextStore]_vars

SpecLookup == InitLookup /\ [][NextLookup]_vars

SpecAssign == InitAssign /\ [][NextAssign]_vars

SpecOffline == InitOffline /\ [][NextOffline]_vars

SpecAuth == InitAuth /\ [][NextAuth]_vars

SpecDownload == InitDownload /\ [][NextDownload]_vars

(***************************************************************************)
(* handleSync and the scan queue: what a pass's record shows               *)
(***************************************************************************)
\* the indices of movesToProcess whose callback reached moveToHall (line
\* 404): the move calls the pass has issued so far
called(ps) == {k \in 1..Len(ps.toProcess) : ps.dest[k] # ""}

\* the moves the pass read whose lot is in the deleted set it fetched
exportedMoves(ps) == {m \in Range(ps.moves) : m.lotCode \in ps.deletedSet}

\* the pass is past its cleanup (lines 301 or 431-437)
Cleaned(ps) == ps.pc \in {"saveSyncAll", "refetchAll", "saveSync", "refetch"}

\* C1: in every pass, at every point of every batch and whatever the order
\* in which the move calls return, the moves that were given a destination
\* have pairwise different Hall codes, and none of these codes is in the
\* occupied set the pass fetched.
C1_DistinctFreeDestinations ==
    \A p \in 1..MaxPasses :
        Active(p) =>
            LET ps == pass[p]
            IN \A j \in called(ps) :
                   /\ ps.dest[j] \in HallUniverse
                   /\ ~occupiedSetHas(ps.free, ps.dest[j])
                   /\ \A k \in called(ps) : j # k => ps.dest[j] # ps.dest[k]

\* a pass in its second batch: six moves hold six destinations while calls
\* of the second batch are in flight and one of the first batch was rejected
C1_Witness ==
    \E p \in 1..MaxPasses :
        /\ pass[p].pc = "batch"
        /\ pass[p].i = BATCH_SIZE
        /\ Cardinality(called(pass[p])) = BATCH_SIZE + 1
        /\ pass[p].resp[BATCH_SIZE + 1] = "pending"
        /\ \E k \in 1..BATCH_SIZE : pass[p].resp[k] = "error"

\* C2: once a pass has run its cleanup, every move it processed whose result
\* is a failure (the move call failed with a non-404 error, or no free Hall
\* slot was found) is still in the pending queue, unmodified -- also when two
\* moves of different export orders carry the same lot code.
C2_FailedMovesStay ==
    \A p \in 1..MaxPasses :
        pass[p].pc \in {"saveSync", "refetch"} =>
            LET ps == pass[p]
            IN \A k \in 1..Len(ps.results) :
                   ~ps.results[k].success => ps.toProcess[k] \in Range(pendingMoves)

\* C3 as stated: when a pass has finished, every move it read whose lot is in
\* the deleted set it fetched is gone from the queue and was counted as
\* skipped.
C3_RemovedByEveryPass ==
    \A p \in 1..MaxPasses :
        pass[p].pc = "done" =>
            /\ \A m \in exportedMoves(pass[p]) : m \notin Range(pendingMoves)
            /\ pass[p].skipped = Cardinality(exportedMoves(pass[p]))

\* C3, amended: a move whose lot is in the deleted set the pass fetched is
\* never sent to the server by that pass and is counted as skipped; it is
\* removed from the queue when the pass reaches its cleanup, that is, unless
\* the pass aborts on the fetch of the occupied positions (the queue is then
\* left as it was).
C3_ExportedSkipped ==
    \A p \in 1..MaxPasses :
        /\ Active(p) =>
             LET ps == pass[p]
             IN /\ \A k \in called(ps) : ps.toProcess[k] \notin exportedMoves(ps)
                /\ ps.pc # "getDeleted" =>
                       Len(ps.exported) = Cardinality(exportedMoves(ps))
                /\ Cleaned(ps) =>
                       \A m \in exportedMoves(ps) : m \notin Range(pendingMoves)
        /\ (pass[p].pc = "done" /\ pass[p].alert # "error") =>
             /\ \A m \in exportedMoves(pass[p]) : m \notin Range(pendingMoves)
             /\ pass[p].skipped = Cardinality(exportedMoves(pass[p]))

\* a pass that skipped an exported move and sent another one has cleaned up
C3_Witness ==
    \E p \in 1..MaxPasses :
        /\ pass[p].pc = "saveSync"
        /\ exportedMoves(pass[p]) # {}
        /\ called(pass[p]) # {}
        /\ \A m \in exportedMoves(pass[p]) : m \notin Range(pendingMoves)

\* C4: a move whose call was rejected with 404 has a successful result marked
\* 'Recovered' (so it is counted with the successes, not the failures), and
\* it is no longer in the queue once the cleanup of the pass has run.
C4_NotFoundRecovered ==
    \A p \in 1..MaxPasses :
        Active(p) =>
            LET ps == pass[p]
            IN \A k \in 1..Len(ps.results) :
                   ps.resp[k] = "404" =>
                       /\ ps.results[k].success
                       /\ ps.results[k].error = "Recovered"
                       /\ ps.results[k].lotCode = ps.toProcess[k].lotCode
                       /\ successCount(ps.results) >= 1
                       /\ Cleaned(ps) => ps.toProcess[k] \notin Range(pendingMoves)

\* the cleanup ran after a call was rejected with 404 and removed that move
C4_Witness ==
    \E p \in 1..MaxPasses :
        /\ pass[p].pc = "saveSync"
        /\ \E k \in 1..Len(pass[p].results) :
             /\ pass[p].resp[k] = "404"
             /\ pass[p].toProcess[k] \notin Range(pendingMoves)

\* C5: a pass one of whose two fetches failed issues no move call and leaves
\* the queue and the last-sync time as they were; the failure of the
\* positions fetch ends the pass with the error alert.
C5_FetchFailureAborts ==
    \A p \in 1..MaxPasses :
        /\ (Active(p) /\ pass[p].deletedFetch = "failed") =>
             /\ called(pass[p]) = {}
             /\ Range(pass[p].moves) \subseteq Range(pendingMoves)
             /\ lastSyncTime # p
        /\ (pass[p].pc = "done" /\ pass[p].alert = "error") =>
             /\ Range(pass[p].moves) \subseteq Range(pendingMoves)
             /\ lastSyncTime # p

\* C6: every move a scan reported as saved and that is still in the queue in
\* memory is in the queue held by durable storage.
C6_SavedIsDurable ==
    \A m \in reportedSaved :
        m \in Range(pendingMoves) =>
            storedMoves # NoStr /\ m \in Range(storedMoves[1])

\* C7: every move appended to the queue while a pass is in flight is in the
\* queue at every later point of that pass, in each of its branches.
C7_AppendedSurvives ==
    \A p \in 1..MaxPasses :
        Active(p) => pass[p].appended \subseteq Range(pendingMoves)

(***************************************************************************)
(* handleSync: the AUTO policy                                             *)
(***************************************************************************)
\* the warehouse whose Hall a destination code belongs to
WarehouseOfSpot(code) ==
    CHOOSE w \in 1..3 : \E i \in 1..HallScanMax : HallCodeTable[w][i] = code

\* the Hall codes of warehouse w that are neither occupied nor given to one
\* of the moves before index k of the pass
OpenSpots(ps, w, k) ==
    {HallCodeTable[w][i] : i \in 1..HallScanMax} \cap
        (ps.free \ {ps.dest[j] : j \in 1..(k - 1)})

\* move k of the pass went through the destination search
Resolved(ps, k) == ps.resp[k] # "unsent"

\* C13: an AUTO move gets its destination from the lowest-numbered warehouse
\* that has a Hall slot neither occupied nor already assigned in the pass
\* (1, else 2, else 3); it gets none only when no warehouse has such a slot.
C13_AutoFirstFit ==
    \A p \in 1..MaxPasses :
        Active(p) =>
            LET ps == pass[p]
            IN \A k \in 1..Len(ps.toProcess) :
                   (Resolved(ps, k) /\ ps.toProcess[k].targetWarehouse = "AUTO") =>
                       IF ps.dest[k] = ""
                       THEN \A w \in 1..3 : OpenSpots(ps, w, k) = {}
                       ELSE /\ ps.dest[k] \in OpenSpots(ps, WarehouseOfSpot(ps.dest[k]), k)
                            /\ \A w \in 1..3 :
                                 w < WarehouseOfSpot(ps.dest[k]) => OpenSpots(ps, w, k) = {}

\* a pass sent moves to warehouses 1, 2 and 3, each after the lower ones
\* were used up
C13_Witness ==
    \E p \in 1..MaxPasses :
        /\ pass[p].pc = "batch"
        /\ \E j, k, l \in called(pass[p]) :
             /\ j < k /\ k < l
             /\ WarehouseOfSpot(pass[p].dest[j]) = 1
             /\ WarehouseOfSpot(pass[p].dest[k]) = 2
             /\ WarehouseOfSpot(pass[p].dest[l]) = 3
             /\ OpenSpots(pass[p], 1, l) = {}
             /\ OpenSpots(pass[p], 2, l) = {}

\* the pass processes three AUTO moves, warehouse 1 has exactly one free
\* Hall slot and warehouse 2 has room for two
ThreeAutoOneFree(ps) ==
    /\ Len(ps.toProcess) = 3
    /\ \A k \in 1..3 : ps.toProcess[k].targetWarehouse = "AUTO"
    /\ ps.pc \notin {"getDeleted", "getPositions"}
    /\ Cardinality(OpenSpots(ps, 1, 1)) = 1
    /\ Cardinality(OpenSpots(ps, 2, 1)) >= 2

\* C14: in a pass over three AUTO moves with exactly one free Hall slot in
\* warehouse 1 and room in warehouse 2, one move goes to warehouse 1, the
\* other two go to warehouse 2, and the three destinations differ.
C14_OneThenTwo ==
    \A p \in 1..MaxPasses :
        (Active(p) /\ ThreeAutoOneFree(pass[p])) =>
            LET ps == pass[p]
            IN /\ called(ps) = {1, 2, 3}
               /\ Cardinality({k \in 1..3 : WarehouseOfSpot(ps.dest[k]) = 1}) = 1
               /\ Cardinality({k \in 1..3 : WarehouseOfSpot(ps.dest[k]) = 2}) = 2
               /\ Cardinality({ps.dest[k] : k \in 1..3}) = 3

\* such a pass ran to its cleanup with the three calls answered
C14_Witness ==
    \E p \in 1..MaxPasses :
        /\ Active(p)
        /\ ThreeAutoOneFree(pass[p])
        /\ pass[p].pc = "saveSync"
        /\ \A k \in 1..3 : pass[p].resp[k] = "ok"
        /\ WarehouseOfSpot(pass[p].dest[1]) = 1

(***************************************************************************)
(* handleSync: classification, report and termination                      *)
(***************************************************************************)
\* C18: in a pass that has classified its moves, every move whose lot code
\* equals an entry of the fetched deleted set up to letter case and
\* surrounding white space is classified already-exported (it is not among
\* the moves to process).
C18_NormalisedMatch ==
    \A p \in 1..MaxPasses :
        (Active(p) /\ pass[p].pc # "getDeleted") =>
            \A k \in 1..Len(pass[p].toProcess) :
                norm(pass[p].toProcess[k].lotCode) \notin
                    {norm(d) : d \in pass[p].deletedSet}

\* the pass is in lines 426-452: every batch is done, the cleanup and the
\* report run
Reporting(ps) == ps.pc \in {"saveSync", "refetch"}

\* C19: a pass that reaches the report has one result for every move to
\* process, has resolved every one of them and sent the call of every one
\* that got a destination, whatever the other calls answered; the succeeded
\* (recovered included), skipped and failed counts add up to the length of
\* the queue read at the start, also in the alert of a pass that returned.
C19_EveryMoveClassified ==
    \A p \in 1..MaxPasses :
        LET ps == pass[p]
        IN /\ (Active(p) /\ Reporting(ps)) =>
                /\ Len(ps.results) = Len(ps.toProcess)
                /\ \A k \in 1..Len(ps.toProcess) :
                      /\ ps.resp[k] \notin {"unsent", "pending"}
                      /\ ps.dest[k] # "" => ps.resp[k] \in {"ok", "404", "error"}
                      /\ ps.results[k] = moveResult(ps.toProcess[k], ps.resp[k])
                /\ successCount(ps.results) + Len(ps.exported) + failedCount(ps.results)
                     = Len(ps.moves)
           /\ (ps.pc = "done" /\ ps.alert # "error") =>
                ps.succeeded + ps.skipped + ps.failed = Len(ps.moves)

\* a pass of two batches reports although a call of the first batch failed:
\* the later moves, the second batch included, were sent and succeeded
C19_Witness ==
    \E p \in 1..MaxPasses :
        /\ Active(p) /\ Reporting(pass[p])
        /\ Len(pass[p].toProcess) > BATCH_SIZE
        /\ pass[p].resp[1] = "error"
        /\ \A k \in 2..Len(pass[p].toProcess) : pass[p].resp[k] = "ok"
        /\ failedCount(pass[p].results) = 1

\* the pass is in the batch loop of lines 355-423
Executing(ps) == ps.pc \in {"batch", "delay"}

\* C20: when every awaited call returns or fails, a started pass eventually
\* returns with isSyncing false, from whatever point it is at; a pass in the
\* batch loop eventually reaches the report with a result for every move to
\* process, and it never returns straight from the batch loop.
C20_PassReturns ==
    /\ \A p \in 1..MaxPasses :
          (pass[p].pc \notin {"unused", "done"}) ~> (pass[p].pc = "done" /\ ~isSyncing)
    /\ \A p \in 1..MaxPasses :
          (pass[p].pc \in {"batch", "delay"}) ~>
              (pass[p].pc \in {"saveSync", "refetch"}
                 /\ Len(pass[p].results) = Len(pass[p].toProcess))
    /\ [][\A p \in 1..MaxPasses : Executing(pass[p]) => pass'[p].pc # "done"]_vars

\* a pass of two batches with a failed call has returned and the screen is
\* idle again
C20_Witness ==
    \E p \in 1..MaxPasses :
        /\ pass[p].pc = "done" /\ ~isSyncing
        /\ pass[p].alert = "partial"
        /\ pass[p].succeeded + pass[p].failed > BATCH_SIZE

\* C21: the step in which a pass ends its classification with nothing to
\* process, or ends its last batch, sets the last-sync time to the time of
\* that pass exactly when the pass resolved a move (a success, a recovered
\* 404 or an already-exported skip) and leaves it alone when every move
\* failed; no other step of the screen changes the last-sync time.
C21_TimestampIffResolved ==
    [][/\ \A p \in 1..MaxPasses :
             (pass[p].pc \in {"getDeleted", "batch"}
                /\ pass'[p].pc \in {"saveSyncAll", "saveSync", "refetch"}) =>
                 IF successCount(pass'[p].results) + Len(pass'[p].exported) > 0
                 THEN lastSyncTime' = p
                 ELSE lastSyncTime' = lastSyncTime
       /\ lastSyncTime' # lastSyncTime =>
             \E p \in 1..MaxPasses :
                 /\ pass[p].pc \in {"getDeleted", "batch"}
                 /\ pass'[p].pc \in {"saveSyncAll", "saveSync"}]_vars

\* a pass returned with every move of its queue failed and the last-sync
\* time is still the initial one
C21_Witness ==
    \E p \in 1..MaxPasses :
        /\ pass[p].pc = "done" /\ pass[p].alert = "partial"
        /\ pass[p].failed = Len(pass[p].moves)
        /\ lastSyncTime = 0

\* the calls of moveToHall of a pass that have not been answered yet
InFlight(ps) == {k \in 1..Len(ps.toProcess) : ps.resp[k] = "pending"}

\* C22: in every state of a pass at most BATCH_SIZE move calls are in
\* flight, all of them in the current slice of BATCH_SIZE consecutive moves
\* of the queue order; every move before the slice has its final answer and
\* no move after the slice has been sent; and a move that was sent once is
\* never sent again in the pass.
C22_BatchedInOrder ==
    /\ [](\A p \in 1..MaxPasses :
            (Active(p) /\ pass[p].pc \in {"batch", "delay", "saveSync", "refetch"}) =>
                LET ps == pass[p]
                IN /\ Cardinality(InFlight(ps)) <= BATCH_SIZE
                   /\ InFlight(ps) # {} => ps.pc = "batch"
                   /\ \A k \in 1..Len(ps.toProcess) :
                        /\ k \in InFlight(ps) => (ps.i < k /\ k <= ps.i + BATCH_SIZE)
                        /\ k <= ps.i => ps.resp[k] \notin {"unsent", "pending"}
                        /\ k > ps.i + BATCH_SIZE => ps.resp[k] = "unsent")
    /\ [][\A p \in 1..MaxPasses :
            (pass[p].pc \in {"batch", "delay"} /\ pass'[p].pc \in {"batch", "delay"}) =>
                \A k \in 1..Len(pass[p].toProcess) :
                    (pass'[p].resp[k] = "pending" /\ pass[p].resp[k] # "pending")
                        => pass[p].resp[k] = "unsent"]_vars

\* the second batch is in flight: the five calls of the first were answered
C22_Witness ==
    \E p \in 1..MaxPasses :
        /\ pass[p].pc = "batch" /\ pass[p].i = BATCH_SIZE
        /\ InFlight(pass[p]) = {BATCH_SIZE + 1}
        /\ \A k \in 1..BATCH_SIZE : pass[p].resp[k] \in {"ok", "404", "error"}

(***************************************************************************)
(* The two grammars of the location code, stated as the strings they       *)
(* generate (independently of the matcher above).                          *)
(***************************************************************************)
IsPrefix(a, s) == Len(a) <= Len(s) /\ SubSeq(s, 1, Len(a)) = a

AllDigits(s) == s # "" /\ \A i \in 1..Len(s) : IsDigit(Char(s, i))

DigitRuns(s) ==
    {r \in {SubSeq(s, i, j) : i \in 1..Len(s), j \in 1..Len(s)} : AllDigits(r)}

InRackGrammar(s) ==
    LET u == toUpperCase(s)
        R == DigitRuns(s)
    IN \E z \in {"A", "B"}, w \in R :
         /\ IsPrefix(z \o "-K" \o w \o "D", u)
         /\ \E d \in R :
              /\ IsPrefix(z \o "-K" \o w \o "D" \o d \o "T", u)
              /\ \E t \in R, p \in R :
                   u = z \o "-K" \o w \o "D" \o d \o "T" \o t \o ".PL" \o p

InHallGrammar(s) ==
    LET u == toUpperCase(s)
        R == DigitRuns(s)
    IN \E w \in R, p \in R : u = "S-K" \o w \o ".PL" \o p

(***************************************************************************)
(* Properties of the codec (under SpecCodec)                               *)
(***************************************************************************)
\* C8: parseCode(formatCode(s)) has the warehouse, zone, row, level and pos
\* of every valid Slot s, and a decoded Hall slot carries no row or level.
C8_RoundTrip ==
    (codecPc = "parsed" /\ codecSlot # Null) =>
        /\ codecOut # Null
        /\ codecOut.warehouse = codecSlot.warehouse
        /\ codecOut.zone = codecSlot.zone
        /\ codecOut.pos = codecSlot.pos
        /\ IF codecSlot.zone = "S"
           THEN ~HasField(codecOut, "row") /\ ~HasField(codecOut, "level")
           ELSE /\ HasField(codecOut, "row") /\ HasField(codecOut, "level")
                /\ codecOut.row = codecSlot.row
                /\ codecOut.level = codecSlot.level

C8_Witness ==
    /\ codecPc = "parsed"
    /\ codecSlot # Null
    /\ codecSlot.zone = "B"
    /\ codecSlot.row = 10
    /\ codecSlot.level = 2
    /\ codecOut # Null
    /\ codecOut.row = 10

\* C9: the code field of every Slot parseCode returns equals formatCode of
\* the Slot's other fields.
C9_CodeRederivable ==
    (codecPc = "parsed" /\ codecOut # Null) =>
        codecOut.code = formatCode(codecOut)

\* C10: parseCode returns null exactly when the trimmed input matches
\* neither grammar (case-insensitively), for every input including null and
\* the empty string; a Slot it returns has an upper-case zone.
C10_ParseTotal ==
    codecPc = "parsed" =>
        LET s == trim(orEmpty(codecStr))
        IN /\ (codecOut = Null) <=> ~(InRackGrammar(s) \/ InHallGrammar(s))
           /\ codecOut # Null => codecOut.zone \in {"A", "B", "S"}

C10_Witness ==
    /\ codecPc = "parsed"
    /\ codecStr = Str("garbage")
    /\ codecOut = Null

\* the digits that follow "-K" in a code: its warehouse number as written
WarehouseDigits(s) == SubSeq(s, 4, DigitsEnd(s, 4) - 1)

\* C11: a Slot parseCode returns, from either grammar, has the warehouse
\* number written in the code when that number is 1, 2 or 3, and warehouse 1
\* for every other number.
C11_WarehouseCoerced ==
    (codecPc = "parsed" /\ codecOut # Null) =>
        LET w == Number(WarehouseDigits(trim(orEmpty(codecStr))))
        IN /\ w \in {1, 2, 3} => codecOut.warehouse = w
           /\ w \notin {1, 2, 3} => codecOut.warehouse = 1

\* "A-K9D1T1.PL1" was decoded to a shelf Slot of warehouse 1
C11_Witness ==
    /\ codecPc = "parsed"
    /\ codecStr = Str("A-K9D1T1.PL1")
    /\ codecOut # Null
    /\ codecOut.zone = "A"
    /\ codecOut.warehouse = 1

(***************************************************************************)
(* Properties of getNextEmptyHallSpots (under SpecSpots)                   *)
(***************************************************************************)
\* the pallet indices of the warehouse whose Hall code is neither occupied
\* nor excluded, and the index written in a Hall code of the warehouse
FreeIndices(a) ==
    {i \in 1..HallScanMax :
        LET code == "S-K" \o ToString(a.whId) \o ".PL" \o ToString(i)
        IN code \in a.free /\ code \notin a.exclude}

IndexOfSpot(a, code) ==
    CHOOSE i \in 1..HallScanMax : code = "S-K" \o ToString(a.whId) \o ".PL" \o ToString(i)

\* the result is made of the first n free indices, in ascending order
FirstFree(a, r, n) ==
    /\ Len(r) = n
    /\ \A k \in 1..Len(r) :
         /\ \E i \in FreeIndices(a) : r[k] = "S-K" \o ToString(a.whId) \o ".PL" \o ToString(i)
         /\ \A i \in FreeIndices(a) : i < IndexOfSpot(a, r[k]) => \E j \in 1..(k - 1) : IndexOfSpot(a, r[j]) = i
         /\ \A j \in 1..(k - 1) : IndexOfSpot(a, r[j]) < IndexOfSpot(a, r[k])

CellCode(a, i) ==
    formatCode([warehouse |-> a.warehouse, zone |-> a.zone, row |-> a.row,
                level |-> a.level, pos |-> i, capacity |-> 1])

HeldCodes(a) ==
    a.occupied \cup {toUpperCase(x.position) : x \in {y \in a.items : y.position # ""}}

AvailableIndices(a) ==
    {i \in 1..MaxPallet :
        /\ \E k \in 1..Len(a.locations) : a.locations[k] = CellCode(a, i)
        /\ CellCode(a, i) \notin HeldCodes(a)}

\* C15: for a requested row and level, findNextAvailablePosition returns the
\* location of the smallest pallet index in 1..8 that is in the location
\* list for the requested warehouse, zone, row and level and is not held in
\* the effective occupancy, and the empty string when there is none.
C15_SmallestAvailable ==
    (codecPc = "findDone" /\ codecSlot.row # 0 /\ codecSlot.level # 0) =>
        IF AvailableIndices(codecSlot) = {}
        THEN codecOut = Str("")
        ELSE codecOut = Str(CellCode(codecSlot,
                  CHOOSE i \in AvailableIndices(codecSlot) :
                      \A j \in AvailableIndices(codecSlot) : i <= j))

\* C16: every non-empty code findNextAvailablePosition returns decodes
\* (parseCode) to the requested warehouse, zone, row and level, with a pallet
\* index in 1..8.
C16_ResultInRequestedCell ==
    (codecPc = "findDone" /\ codecOut # Str("")) =>
        LET s == parseCode(codecOut)
        IN /\ s # Null
           /\ s.warehouse = codecSlot.warehouse
           /\ s.zone = codecSlot.zone
           /\ HasField(s, "row") /\ s.row = codecSlot.row
           /\ HasField(s, "level") /\ s.level = codecSlot.level
           /\ s.pos \in 1..MaxPallet

(***************************************************************************)
(* Properties of the removals (under SpecStore)                            *)
(***************************************************************************)
\* C17: after deleteScan(id) no row has that id, and when no row had it
\* before (as after a first removal) the table is exactly as it was; after
\* the lot-code filter no move has a cleared lot code, and when none had one
\* before the queue is exactly as it was.  No removal fails.
C17_RemovalIdempotent ==
    /\ (codecPc = "store" /\ codecOut # Null /\ codecOut.op = "deleteScan") =>
         /\ \A r \in codecSlot.rows : r.id # codecOut.id
         /\ codecSlot.rows \subseteq codecOut.before
         /\ (\A r \in codecOut.before : r.id # codecOut.id) =>
                codecSlot.rows = codecOut.before
    /\ (codecPc = "store" /\ codecOut # Null /\ codecOut.op = "filter") =>
         /\ \A m \in Range(codecStr[1]) : m.lotCode \notin codecOut.allCleared
         /\ (\A m \in Range(codecOut.before) : m.lotCode \notin codecOut.allCleared) =>
                codecStr[1] = codecOut.before

\* a row was deleted and the same id was deleted again while other rows
\* remain: the table is the one the first removal left
C17_Witness ==
    /\ codecPc = "store"
    /\ codecOut # Null
    /\ codecOut.op = "deleteScan"
    /\ codecOut.id <= codecSlot.lastId
    /\ \A r \in codecOut.before : r.id # codecOut.id
    /\ codecSlot.rows # {}
    /\ codecSlot.rows = codecOut.before

(***************************************************************************)
(* Properties of lookupLot (under SpecLookup)                              *)
(***************************************************************************)
\* the warehouse a signature of posToDetail is stored under
SigWarehouse(sig) == parseInt(sig)

\* the signatures of the index that hold the detail returned
SigsOf(index, out) ==
    {sg \in DOMAIN index.posToDetail : index.posToDetail[sg].productCode = out.productCode}

\* C23: when lookupLot returns a detail and the position string of the lot
\* names a warehouse, the detail is stored under a signature of that
\* warehouse, for a rack and for a hall position alike; when the string names
\* none, the detail is of the lowest of the warehouses 1, 2, 3 that has one
\* for the position.
C23_ExplicitWarehouseWins ==
    (codecPc = "lookupDone" /\ codecOut # Null) =>
        LET m == posMatch(dotsToDashes(toUpperCase(codecOut.position)))
            keys == lookupKeys(m)
        IN IF m.m1 # NoStr
           THEN \A sg \in SigsOf(codecSlot, codecOut) : SigWarehouse(sg) = parseInt(m.m1[1])
           ELSE \A sg \in SigsOf(codecSlot, codecOut) :
                    \A k \in 1..Len(keys) :
                        keys[k] \in DOMAIN codecSlot.posToDetail =>
                            SigWarehouse(sg) <= SigWarehouse(keys[k])

(***************************************************************************)
(* Properties of the bulk syncs (under SpecAssign)                         *)
(***************************************************************************)
\* the items of AssignScreen that a step marks synced
NewlySynced ==
    {k \in 1..Len(assign'.items) :
        /\ assign'.items[k].synced
        /\ ~\E j \in 1..Len(assign.items) :
               assign.items[j].id = assign'.items[k].id /\ assign.items[j].synced}

\* C26: an item that a step of AssignScreen marks synced holds the position
\* that the /scan/sync request carried for its code.
C26_SyncedPositionWasSent ==
    [][assign.pc = "posting" =>
          \A k \in NewlySynced :
              \E j \in 1..Len(assign.sent) :
                  /\ assign.sent[j].code = assign'.items[k].id
                  /\ assign.sent[j].position = assign'.items[k].position]_vars

\* C27: a /scan/sync request of AssignScreen that fails or is answered with
\* ok false changes no item, no entry of the occupied map and nothing
\* stored; an item becomes synced only in the step of an ok answer, and then
\* exactly the items whose code was sent do.  A rejected or failed syncData
\* ends thrown and changes no row; a row becomes synced only when syncData
\* returns, and then exactly the rows that were sent do.
C27_FailureChangesNothing ==
    [][/\ (assign.pc = "posting" /\ assign'.pc = "idle" /\ assign'.alert # "ok") =>
             /\ assign'.items = assign.items
             /\ assign'.occupied = assign.occupied
             /\ offline' = offline
       /\ (assign.pc # "off" /\ NewlySynced # {}) =>
             /\ assign.pc = "posting" /\ assign'.alert = "ok"
       /\ (assign.pc = "posting" /\ assign'.pc = "idle" /\ assign'.alert = "ok") =>
             /\ Len(assign'.items) = Len(assign.items)
             /\ \A k \in 1..Len(assign.items) :
                   assign'.items[k].synced <=>
                       \/ assign.items[k].synced
                       \/ \E j \in 1..Len(assign.sent) : assign.sent[j].code = assign.items[k].id
       /\ (sync.pc = "posting" /\ sync'.pc = "thrown") => codecSlot'.rows = codecSlot.rows
       /\ (sync.pc # "off" /\ codecSlot'.rows # codecSlot.rows
             /\ {r.id : r \in codecSlot'.rows} = {r.id : r \in codecSlot.rows}) =>
             /\ sync.pc = "posting" /\ sync'.pc = "returned"
             /\ \A r \in codecSlot'.rows :
                   r.synced = 1 <=>
                       \/ \E q \in codecSlot.rows : q.id = r.id /\ q.synced = 1
                       \/ \E d \in sync.pendingData : d.id = r.id]_vars

\* a request of AssignScreen was answered with ok false and the item it
\* carried is still to be synced
C27_Witness ==
    /\ assign.pc = "idle" /\ assign.alert = "notOk"
    /\ \E k \in 1..Len(assign.items) :
          /\ ~assign.items[k].synced
          /\ \E j \in 1..Len(assign.sent) : assign.sent[j].code = assign.items[k].id

(***************************************************************************)
(* Properties of the offline index (under SpecOffline)                     *)
(***************************************************************************)
\* C24: in the step that completes a download with the success alert the
\* index in memory equals the index loadIndex builds from what storage
\* then holds; and the stored occupancy only changes in the step that
\* stores the answer of the download's /scanner/occupied request.
C24_IndexFollowsDownload ==
    [][/\ (offline.pc = "downloading" /\ offline'.alert = "success") =>
             offline'.index = loadIndex(offline'.occupied, offline'.status)
       /\ offline'.occupied # offline.occupied =>
             ("occupied" \in offline.waiting /\ "occupied" \notin offline'.waiting)]_vars

(***************************************************************************)
(* Properties of the start of WorkScreen (under SpecMount)                 *)
(***************************************************************************)
\* C25: until loadOfflineData has read the stored queue no step changes a
\* queue that is in storage, and the step that reads it puts exactly the
\* stored queue into memory; so the queue in memory after start-up is the
\* one storage held before.
C25_StoredQueueReadFirst ==
    [][(loadPc = "moves" /\ storedMoves # NoStr) =>
          /\ storedMoves' = storedMoves
          /\ loadPc' = "sync" => pendingMoves' = storedMoves[1]]_vars

(***************************************************************************)
(* Properties of authService.login (under SpecAuth)                        *)
(***************************************************************************)
\* C28: a login returns a user only when the server answered ok, or when
\* there was no answer at all and the stored user's username equals the
\* entered one up to letter case; when the server answered the request with
\* a rejection the login throws and user_data is left as it was.
C28_RejectedLoginThrows ==
    [][(auth.pc = "posting" /\ auth'.pc # "posting") =>
          /\ auth'.pc = "returned" =>
                \/ auth'.outcome = "ok"
                \/ /\ auth'.outcome = "network"
                   /\ auth.stored # NoStr
                   /\ toLowerCase(auth.stored[1].username) = toLowerCase(auth.username)
          /\ auth'.outcome \in {"notOk", "status401"} =>
                /\ auth'.pc = "thrown" /\ auth'.user = Null
                /\ auth'.stored = auth.stored]_vars

(***************************************************************************)
(* Properties of the queue's contents (under SpecMount)                    *)
(***************************************************************************)
\* the move is the one onBarcodeScanned builds for some lot of its order
FromItsOrder(m) ==
    /\ m.exportOrderId \in OrderIds
    /\ \E k \in 1..Len(Orders[m.exportOrderId].lotCodes) :
         /\ Orders[m.exportOrderId].lotCodes[k] = m.lotCode
         /\ Orders[m.exportOrderId].locations[k] = m.originalPosition

\* C29: the queue never holds two moves of the same export order and lot
\* code, and every move in it names a lot of its order together with that
\* lot's location in the order.
C29_OneMovePerOrderLot ==
    /\ \A i, j \in 1..Len(pendingMoves) :
         (/\ pendingMoves[i].exportOrderId = pendingMoves[j].exportOrderId
          /\ pendingMoves[i].lotCode = pendingMoves[j].lotCode) => i = j
    /\ \A i \in 1..Len(pendingMoves) : FromItsOrder(pendingMoves[i])

(***************************************************************************)
(* Properties of handleDownload (under SpecDownload)                       *)
(***************************************************************************)
\* C30: handleDownload changes the last-sync time and reports success only
\* when the fetch of orders, deleted lots and positions succeeded; when the
\* fetch failed, the time and the orders shown are as before and an error is
\* shown to the user.
C30_SuccessOnlyAfterFetch ==
    [][/\ download'.lastSyncTime # download.lastSyncTime => download'.fetched = "ok"
       /\ (download.pc = "fetching" /\ download'.fetched = "failed") =>
             /\ download'.orders = download.orders
             /\ download'.storedOrders = download.storedOrders
       /\ (download.pc = "stamping" /\ download'.pc = "idle"
             /\ download.fetched = "failed") =>
             /\ download'.alerts # << >>
             /\ \A i \in 1..Len(download'.alerts) : download'.alerts[i] # "success"]_vars

====
